---- MODULE Spec2Model ----
(***************************************************************************)
(* Fantasy Intelligence Services: the weekly category-scoring / matchup    *)
(* engine (organizer.py), the season table (visualizer.py) and the         *)
(* walk-forward prediction pipeline (organizer.py, analyzer.py).           *)
(*                                                                         *)
(* Encodings used throughout:                                              *)
(*  - a Python str is a sequence of one-character strings;                 *)
(*  - category scores and matchup wins are counted in half points          *)
(*    (1 -> 2, 0.5 -> 1, 0 -> 0), so that they stay integers;              *)
(*  - a weekly percentage is kept in thousandths (".500" -> 500);          *)
(*  - a float quotient is an exact fraction [nan, n, d] in lowest terms.   *)
(***************************************************************************)
EXTENDS Integers, Sequences, FiniteSets, TLC

\* ------------------------------------------------------------------ bounds
NumTeams == 3
MaxWeeks == 2
NumPlayers == 3
NumSeasons == 6
MaxFits == 2
MaxDropList == 8

\* ------------------------------------------------------- Python primitives
Digits == <<"0", "1", "2", "3", "4", "5", "6", "7", "8", "9">>

IsDigit(c) == \E k \in 1..10 : Digits[k] = c

DigitVal(c) == (CHOOSE k \in 1..10 : Digits[k] = c) - 1

RECURSIVE DigitsToNat(_)
DigitsToNat(s) ==
    IF s = <<>> THEN 0
    ELSE 10 * DigitsToNat(SubSeq(s, 1, Len(s) - 1)) + DigitVal(s[Len(s)])

AllDigits(s) == Len(s) > 0 /\ \A k \in 1..Len(s) : IsDigit(s[k])

\* int(str): ok = FALSE stands for the ValueError int() raises.
py_int(s) ==
    IF AllDigits(s) THEN [ok |-> TRUE, val |-> DigitsToNat(s)]
    ELSE IF Len(s) > 1 /\ s[1] = "-" /\ AllDigits(Tail(s))
         THEN [ok |-> TRUE, val |-> 0 - DigitsToNat(Tail(s))]
         ELSE [ok |-> FALSE, val |-> 0]

RECURSIVE Pow10(_)
Pow10(k) == IF k = 0 THEN 1 ELSE 10 * Pow10(k - 1)

\* float(str) of a decimal with at most three places, in thousandths.
py_float(s) ==
    LET dots == {k \in 1..Len(s) : s[k] = "."} IN
    IF Cardinality(dots) = 0 THEN
        LET r == py_int(s) IN [ok |-> r.ok, val |-> 1000 * r.val]
    ELSE IF Cardinality(dots) = 1 THEN
        LET k    == CHOOSE x \in dots : TRUE
            ip   == SubSeq(s, 1, k - 1)
            fp   == SubSeq(s, k + 1, Len(s))
            okI  == ip = <<>> \/ AllDigits(ip)
            okF  == fp = <<>> \/ (AllDigits(fp) /\ Len(fp) <= 3)
        IN IF okI /\ okF /\ Len(s) > 1
           THEN [ok |-> TRUE,
                 val |-> 1000 * DigitsToNat(ip) + DigitsToNat(fp) * Pow10(3 - Len(fp))]
           ELSE [ok |-> FALSE, val |-> 0]
    ELSE [ok |-> FALSE, val |-> 0]

\* str.split(sep): the list of the pieces between the separators.
RECURSIVE py_split(_, _)
py_split(s, sep) ==
    IF \A k \in 1..Len(s) : s[k] # sep THEN <<s>>
    ELSE LET k == CHOOSE x \in 1..Len(s) :
                      s[x] = sep /\ \A j \in 1..(x - 1) : s[j] # sep
         IN <<SubSeq(s, 1, k - 1)>> \o py_split(SubSeq(s, k + 1, Len(s)), sep)

\* A Python value that is either a str or a list of str.
PyStr(s) == [t |-> "str", v |-> s]
PyList(l) == [t |-> "list", v |-> l]

RECURSIVE Gcd(_, _)
Gcd(a, b) == IF b = 0 THEN a ELSE Gcd(b, a % b)

\* a / b on floats (pandas Series.div): 0/0 is NaN, x/0 is inf.
py_div(a, b) ==
    IF b = 0 THEN [nan |-> a = 0, n |-> a, d |-> 0]
    ELSE LET g == Gcd(a, b) IN [nan |-> FALSE, n |-> a \div g, d |-> b \div g]

RECURSIVE SumSeq(_)
SumSeq(s) == IF s = <<>> THEN 0 ELSE Head(s) + SumSeq(Tail(s))

Range(s) == {s[k] : k \in 1..Len(s)}

\* ------------------------------------------------- league metadata (SetUp)
nFGMA == <<"F", "G", "M", "/", "A">>
nFGP  == <<"F", "G", "%">>
nPTS  == <<"P", "T", "S">>
nTO   == <<"T", "O">>
nYear == <<"Y", "e", "a", "r">>
nWeek == <<"W", "e", "e", "k">>
nTeam == <<"T", "e", "a", "m">>
nGP   == <<"G", "P">>
nWin  == <<"W", "i", "n">>
nScore        == <<"S", "c", "o", "r", "e">>
nMatchup_Wins == <<"M", "a", "t", "c", "h", "u", "p", "_", "W", "i", "n", "s">>
nWeek_Result  == <<"W", "e", "e", "k", "_", "R", "e", "s", "u", "l", "t">>
nTeam_id      == <<"T", "e", "a", "m", "_", "i", "d">>

\* [display_name, stat_type] pairs as SetUp.fill_in_league_settings_info builds them.
stats_list ==
    << <<nFGMA, "fraction">>, <<nFGP, "percentage">>,
       <<nPTS, "standard">>, <<nTO, "inverse">> >>

stat_count == Len(stats_list)

scoring_stats_list ==
    SelectSeq(stats_list, LAMBDA st : st[2] # "fraction")

num_teams == NumTeams

season == 2020

\* teams_dict[team][0]: one fixed name per team id; alphabetical order differs
\* from team-id order.
TeamNames == <<"C", "A", "B", "E", "D", "F">>

Alphabet == <<"A", "B", "C", "D", "E", "F">>

NameRank(nm) == CHOOSE k \in 1..Len(Alphabet) : Alphabet[k] = nm

\* ------------------------------------------------ extracted weekly records
\* One team's week as Extract_Week_Data writes it: the stat strings in
\* stats_list order, the games played and the week's result (in half points).
StatLines ==
    { [stats |-> << <<"2", "/", "2">>, <<"1", ".", "0", "0", "0">>, <<"1", "0">>, <<"5">> >>,
       GP |-> <<"3">>, Win |-> 2],
      [stats |-> << <<"0", "/", "8">>, <<".", "0", "0", "0">>, <<"8">>, <<"5">> >>,
       GP |-> <<"3">>, Win |-> 0],
      [stats |-> << <<"1", "/", "2">>, <<".", "5", "0", "0">>, <<"1", "0">>, <<"4">> >>,
       GP |-> <<"2">>, Win |-> 1],
      [stats |-> << <<"2", "/", "2">>, <<"1", ".", "0", "0", "0">>, <<"8">>, <<"5">> >>,
       GP |-> <<"3">>, Win |-> 0],
      [stats |-> << <<"0", "/", "0">>, <<".", "0", "0", "0">>, <<"0">>, <<"0">> >>,
       GP |-> <<"0">>, Win |-> 0],
      [stats |-> << <<"-", "/", "-">>, <<"-">>, <<"0">>, <<"0">> >>,
       GP |-> <<"0">>, Win |-> 0] }

RawWeeks == [1..NumTeams -> StatLines]

\* later weeks replay the stat lines of week 1, moved on by sh[w-1] teams
ShiftedSeason(week1, sh) ==
    [w \in 1..(Len(sh) + 1) |->
        IF w = 1 THEN week1
        ELSE [i \in 1..NumTeams |-> week1[((i - 1 + sh[w - 1]) % NumTeams) + 1]]]

\* the extraction files considered: no week yet, or 1..MaxWeeks weeks
RawSeasons ==
    {<<>>} \cup
    {ShiftedSeason(week1, sh) :
        week1 \in RawWeeks,
        sh \in UNION {[1..k -> 0..(NumTeams - 1)] : k \in 0..(MaxWeeks - 1)}}

\* team_data of team i in week w, as one element of raw_data[str(w)]
team_record(raw, w, i) ==
    [Season |-> season, Week |-> w, Team |-> TeamNames[i],
     stats |-> raw[w][i].stats, GP |-> raw[w][i].GP, Win |-> raw[w][i].Win]

\* ------------------------------------------- players: metadata and inputs
first_season == 2012

\* the last season organized, range(2012, 2021) in the program
LastSeason == first_season + NumSeasons - 1

Seasons == first_season..LastSeason

advanced_after == 2016

num_stats == 34

num_stats_advanced == 51

X_columns == <<6, 8, 9, 11, 12, 14, 16, 18, 21, 22, 23, 24, 25, 26, 27, 32, 33>>

X_columns_advanced == X_columns \o <<34, 35, 38, 41, 42, 44, 45, 49, 50>>

stats_to_take_average ==
    <<8, 9, 10, 12, 13, 15, 16, 18, 19, 20, 21, 22, 23, 24, 25, 27>>

stats_to_take_average_advanced ==
    <<8, 9, 10, 12, 13, 15, 16, 18, 19, 20, 21, 22, 23, 24, 25, 27, 34, 35, 42, 43>>

model_names == <<"forest", "lasso", "elastic", "ridge">>

\* extraction_relevant_player_ids.txt: the ids in the order they were found
relevant_players_ids == [p \in 1..NumPlayers |-> p]

\* Fixed point: a float stat v is kept as the integer v * Scale, a points value
\* as the integer v * 1000 * Scale.  The inputs are chosen so that every
\* quotient the program takes is exact at this scale.
Scale == 2 * 10

Reverse(s) == [k \in 1..Len(s) |-> s[Len(s) + 1 - k]]

Orderings(s) ==
    {q \in [1..Len(s) -> Range(s)] : \A i, j \in 1..Len(s) : i # j => q[i] # q[j]}

\* The row extract_players_season_data writes for a player who played:
\* [season, id, name, team, team abbr, position, GP, ...stats].  Text fields
\* are distinct codes; FG% < 0.46 for player 1 and > 0.46 for the others.
PlayedRow(s, p) ==
    [pos \in 0..(num_stats - 1) |->
        CASE pos = 0  -> s
          [] pos = 1  -> p
          [] pos = 2  -> 100 + p
          [] pos = 3  -> 200 + (p % 2)
          [] pos = 4  -> 300 + (p % 2)
          [] pos = 5  -> 400 + (p % 3)
          [] pos = 6  -> 2 * Scale
          [] pos = 8  -> 60 * Scale
          [] pos = 9  -> 20 * Scale
          [] pos = 10 -> (6 + 2 * p) * Scale
          [] pos = 11 -> ((6 + 2 * p) * Scale) \div 20
          [] pos = 12 -> 10 * Scale
          [] pos = 13 -> (6 + 2 * (p % 2)) * Scale
          [] pos = 14 -> ((6 + 2 * (p % 2)) * Scale) \div 10
          [] pos = 16 -> 2 * p * Scale
          [] pos = 18 -> 2 * (10 * p + (s - first_season)) * Scale
          [] pos = 21 -> 4 * Scale
          [] pos = 22 -> 2 * Scale
          [] pos = 23 -> 2 * Scale
          [] pos = 25 -> 2 * (s - first_season) * Scale
          [] OTHER    -> 0]

\* the row of a player who did not play that season: every stat was '-'
IdleRow(s, p) ==
    [pos \in 0..(num_stats - 1) |->
        IF pos <= 5 THEN PlayedRow(s, p)[pos] ELSE 0]

\* the advanced row is the basic row followed by the advanced stats
AdvancedRow(row) ==
    [pos \in 0..(num_stats_advanced - 1) |->
        IF pos < num_stats THEN row[pos]
        ELSE IF row[6] > 0 THEN 2 * (pos - num_stats + 1) * Scale ELSE 0]

\* A json dict: its keys in file order and the value of each key.
PyDict(ks, rows) == [present |-> TRUE, keys |-> ks, rows |-> rows]

\* what read_raw_data_json leaves when the file does not exist
NoFile == [present |-> FALSE, keys |-> <<>>, rows |-> <<>>]

\* A season file lists the players extracted so far in the order of the id
\* list at the time (a prefix when extraction stopped early, another order when
\* the id list was rebuilt in between).
KeyOrders ==
    {SubSeq(relevant_players_ids, 1, k) : k \in 0..NumPlayers}
    \cup {Reverse(relevant_players_ids)}

SeasonKeys ==
    {[s \in Seasons |-> IF s = d THEN o ELSE relevant_players_ids] :
        d \in Seasons, o \in KeyOrders}

IdleCells ==
    {{}} \cup {{<<s, p>>} : s \in Seasons, p \in 1..NumPlayers}

SeasonFile(s, ks, idle) ==
    PyDict(ks, [p \in Range(ks) |->
                   IF <<s, p>> \in idle THEN IdleRow(s, p) ELSE PlayedRow(s, p)])

\* every season extracted (one of them partly or in another order, or one
\* player idle in one season), or the file of one season not written yet
PlayersFiles ==
    {[s \in Seasons |-> SeasonFile(s, ks[s], {})] : ks \in SeasonKeys}
    \cup {[s \in Seasons |-> SeasonFile(s, relevant_players_ids, idle)] :
             idle \in IdleCells}
    \cup {[s \in Seasons |->
              IF s = d THEN NoFile ELSE SeasonFile(s, relevant_players_ids, {})] :
           d \in Seasons}

\* extract_players_season_data writes the two files of a season together
AdvancedFiles(files) ==
    [s \in Seasons |->
        IF ~files[s].present THEN NoFile
        ELSE PyDict(files[s].keys,
                    [p \in Range(files[s].keys) |-> AdvancedRow(files[s].rows[p])])]

VARIABLES
    file_present,     \* the extraction file of the season exists
    raw_data,         \* its content: weeks -> teams -> StatLines
    org_state,        \* "none" | "done" | "not_ready" | "error"
    final_data,       \* Teams_Weekly_Data_Organizer.final_data
    score_data,       \* Teams_Weekly_Data_Organizer.score_data
    stats_drop_list,  \* Data_Organizer.stats_drop_list
    saved,            \* save_data / save_score_data have written the csv files
    vis_state,        \* Visualize_Teams_Season_Data: "none" | "valid" | "invalid"
    vis_data,         \* its data attribute (a copy of final_data)
    active_option,    \* its active_option
    season_table,     \* its season_table
    players_files,    \* extraction files: season -> [keys, rows] of players_dict_<season>.txt
    advanced_files,   \* the same for players_dict_advanced_<season>.txt
    players_state,    \* Players_Data_Organizer: "none" | "done" | "error"
    active_players_list, \* its active_players_list, list(set(relevant ids))
    avg_dfs,          \* its avg_dfs           (season -> DataFrame)
    X_dfs,            \* its X_dfs
    y_dfs,            \* its y_dfs
    player_info,      \* its player_info       (season -> dict id -> [name, position, team])
    points_breakdown, \* its points_breakdown  (season -> dict id -> points_list)
    avg_dfs_advanced, \* its avg_dfs_advanced
    X_dfs_advanced,   \* its X_dfs_advanced
    analysis_state,   \* Analyze_Players_Data: "none" | "valid" | "done" | "error"
    analysis_year,    \* the year generate_all_analysis was called with
    predictions,      \* predictions_1, predictions_2, predictions_3
    ranking,          \* ranking_1, ranking_2, ranking_3
    training,         \* the training and test matrices of the last runs, by window length
    models_list,      \* a list of estimators its caller built (estimator ids)
    fits,             \* estimator id -> the windows <<length, year>> it was fitted on
    current_week,     \* Data_Organizer.current_week, from the league's setup
    week_state,       \* Visualize_Teams_Week_Data: "none" | "valid" | "invalid"
    week,             \* its active week
    last_week,        \* its last_week
    week_vis_data,    \* its data attribute (a copy of final_data)
    week_vis_score,   \* its score_data attribute (a copy of score_data)
    week_option,      \* its active_option
    week_table_data,  \* its week_table_data
    week_score_data,  \* its week_score_data
    comparison_week_data, \* its week_data, set by create_stats_comparison
    ids_file,         \* extraction_relevant_player_ids.txt: [present, ids]
    stopping_file,    \* extraction_ids_last_extracted_season.txt: [present, season]
    teams_file,       \* extraction_players_teams.txt: [present, info]
    ex_state,         \* the last update_player_id_database call: "none" | "done" | "raised"
    ex_season,        \* the season of the object it was called on
    ex_relevant_players_ids, \* that object's relevant_players_ids
    ex_players_info,  \* its players_info
    ex_starting_point, \* its starting_point
    ex_queries,       \* the roster queries the call has sent
    completed_season  \* the highest season a call has completed for (0: none)

teams_vars == <<file_present, raw_data, org_state, final_data, score_data,
                stats_drop_list, saved, vis_state, vis_data, active_option, season_table>>

players_vars == <<players_files, advanced_files, players_state, active_players_list,
                  avg_dfs, X_dfs, y_dfs, player_info, points_breakdown, avg_dfs_advanced, X_dfs_advanced,
                  analysis_state, analysis_year, predictions, ranking, training>>

models_vars == <<models_list, fits>>

week_vars == <<current_week, week_state, week, last_week, week_vis_data, week_vis_score,
               week_option, week_table_data, week_score_data, comparison_week_data>>

\* what the objects of the teams pipeline, of the players pipeline and the
\* analyses leave alone
extraction_vars == <<ids_file, stopping_file, teams_file, ex_state, ex_season,
                     ex_relevant_players_ids, ex_players_info, ex_starting_point,
                     ex_queries, completed_season>>

not_teams == <<players_vars, models_vars, week_vars, extraction_vars>>
not_players == <<teams_vars, models_vars, week_vars, extraction_vars>>
not_analysis == <<teams_vars, week_vars, extraction_vars>>
not_week == <<players_vars, models_vars, extraction_vars>>

vars == <<teams_vars, players_vars, models_vars, week_vars, extraction_vars>>

\* A DataFrame: its index labels and its columns (name -> values by position).
NoneDF == [df |-> FALSE, index |-> <<>>, cols |-> <<>>]

DataFrame(ix, cs) == [df |-> TRUE, index |-> ix, cols |-> cs]

\* ------------------------------------------------------ Data_Organizer
check_if_empty_percentages(string) ==
    IF string.t = "str" /\ string.v = <<"-">> THEN PyStr(<<"0">>)
    ELSE IF string.t = "str" /\ string.v = <<"-", "/", "-">>
         THEN PyStr(<<"0", "/", "0">>)
         ELSE string

\* ------------------------------------------ Teams_Weekly_Data_Organizer
separate_fraction(stat_name) ==
    LET parts == py_split(stat_name, "/")
    IN <<parts[1],
         SubSeq(parts[1], 1, Len(parts[1]) - Len(parts[2])) \o parts[2]>>

\* the column names initialize_week_data creates, in creation order
RECURSIVE stat_columns(_)
stat_columns(k) ==
    IF k = 0 THEN <<>>
    ELSE stat_columns(k - 1) \o
         (IF stats_list[k][2] = "fraction"
          THEN separate_fraction(stats_list[k][1])
          ELSE <<stats_list[k][1]>>)

\* the names initialize_week_data appends to stats_drop_list on every call
RECURSIVE fraction_columns(_)
fraction_columns(k) ==
    IF k = 0 THEN <<>>
    ELSE fraction_columns(k - 1) \o
         (IF stats_list[k][2] = "fraction"
          THEN separate_fraction(stats_list[k][1])
          ELSE <<>>)

initialize_week_data ==
    [columns |-> <<nYear, nWeek, nTeam>> \o stat_columns(Len(stats_list)) \o <<nGP, nWin>>,
     dropped |-> fraction_columns(Len(stats_list))]

\* `stat_num, stat_den = check_if_empty_percentages(stat_value.split('/'))`
\* followed by the two int() calls; ok = FALSE is the ValueError.
fraction_counters(stat_value) ==
    LET r == check_if_empty_percentages(PyList(py_split(stat_value, "/")))
    IN IF Len(r.v) # 2 THEN [ok |-> FALSE, num |-> 0, den |-> 0]
       ELSE LET a == IF r.t = "list" THEN r.v[1] ELSE <<r.v[1]>>
                b == IF r.t = "list" THEN r.v[2] ELSE <<r.v[2]>>
            IN [ok |-> py_int(a).ok /\ py_int(b).ok,
                num |-> py_int(a).val, den |-> py_int(b).val]

\* the same loop body with the inverse stats stored as they are read
stat_cells_inverse_as_read(team_data, i) ==
    LET stat_value == team_data.stats[i]
        name == stats_list[i][1]
        kind == stats_list[i][2]
    IN IF kind = "fraction" THEN
           LET fc == fraction_counters(stat_value)
               nd == separate_fraction(name)
           IN [ok |-> fc.ok, cells |-> {<<nd[1], fc.num>>, <<nd[2], fc.den>>}]
       ELSE IF kind = "percentage" THEN
           [ok |-> py_float(stat_value).ok,
            cells |-> {<<name, py_float(stat_value).val>>}]
       ELSE
           [ok |-> py_int(stat_value).ok,
            cells |-> {<<name, py_int(stat_value).val>>}]

\* what the body of the loop over range(stat_count) appends for stat i
stat_cells(team_data, i) ==
    LET stat_value == team_data.stats[i]
        name == stats_list[i][1]
        kind == stats_list[i][2]
    IN IF kind = "fraction" THEN
           LET fc == fraction_counters(stat_value)
               nd == separate_fraction(name)
           IN [ok |-> fc.ok, cells |-> {<<nd[1], fc.num>>, <<nd[2], fc.den>>}]
       ELSE IF kind = "percentage" THEN
           [ok |-> py_float(stat_value).ok,
            cells |-> {<<name, py_float(stat_value).val>>}]
       ELSE IF kind = "inverse" THEN
           [ok |-> py_int(stat_value).ok,
            cells |-> {<<name, (0 - 1) * py_int(stat_value).val>>}]
       ELSE
           [ok |-> py_int(stat_value).ok,
            cells |-> {<<name, py_int(stat_value).val>>}]

\* everything the loop body of fill_in_week_data appends for one team_data:
\* column name -> appended value
team_cells(team_data) ==
    LET cells == UNION {stat_cells(team_data, k).cells : k \in 1..stat_count}
    IN [col \in Range(initialize_week_data.columns) |->
           IF col = nYear THEN team_data.Season
           ELSE IF col = nWeek THEN team_data.Week
           ELSE IF col = nTeam THEN team_data.Team
           ELSE IF col = nGP THEN py_int(team_data.GP).val
           ELSE IF col = nWin THEN team_data.Win
           ELSE (CHOOSE x \in cells : x[1] = col)[2]]

\* fill_in_week_data for week w of raw: the filled dictionary, or ok = FALSE
\* when a conversion raised.
fill_in_week_data(raw, w) ==
    LET n == Len(raw[w])
        appended == [i \in 1..n |-> team_cells(team_record(raw, w, i))]
    IN [ok |-> \A i \in 1..n :
                  /\ \A k \in 1..stat_count : stat_cells(team_record(raw, w, i), k).ok
                  /\ py_int(team_record(raw, w, i).GP).ok,
        week_data |-> [c \in Range(initialize_week_data.columns) |->
                          [i \in 1..n |-> appended[i][c]]]]

\* mutant: a tie earns nothing
won_at_this_stat_tie0(team, opponent) ==
    IF team > opponent THEN 2 ELSE 0

\* an equal value earns the full point
won_at_this_stat_tie1(team, opponent) ==
    IF team >= opponent THEN 2 ELSE 0

won_at_this_stat(team, opponent) ==
    IF team > opponent THEN 2
    ELSE IF team = opponent THEN 1
    ELSE 0

\* mutant: the team is also compared with itself
calculate_stat_score_self(stat, team) ==
    SumSeq([i \in 1..Len(stat) |-> won_at_this_stat(stat[team], stat[i])])

calculate_stat_score(stat, team) ==
    SumSeq([i \in 1..Len(stat) |->
               IF i # team THEN won_at_this_stat(stat[team], stat[i]) ELSE 0])

\* mutant: an equal value counts as a category won
compare_with_opponent_ge(team, opponent) ==
    IF team >= opponent THEN 1 ELSE 0 - 1

compare_with_opponent(team, opponent) ==
    IF team > opponent THEN 1
    ELSE IF team = opponent THEN 0
    ELSE 0 - 1

advantage(week_data, team, i) ==
    SumSeq([k \in 1..Len(scoring_stats_list) |->
               compare_with_opponent(week_data[scoring_stats_list[k][1]][team],
                                     week_data[scoring_stats_list[k][1]][i])])

\* mutant: a level matchup counts as a full win
calculate_matchup_wins_ge(week_data, team) ==
    SumSeq([i \in 1..num_teams |->
               IF i # team
               THEN (IF advantage(week_data, team, i) >= 0 THEN 2 ELSE 0)
               ELSE 0])

calculate_matchup_wins(week_data, team) ==
    SumSeq([i \in 1..num_teams |->
               IF i # team
               THEN (IF advantage(week_data, team, i) > 0 THEN 2
                     ELSE IF advantage(week_data, team, i) = 0 THEN 1
                     ELSE 0)
               ELSE 0])

initialize_week_score ==
    <<nYear, nWeek, nTeam>> \o
    [k \in 1..Len(scoring_stats_list) |-> scoring_stats_list[k][1]] \o
    <<nScore, nMatchup_Wins, nWeek_Result>>

\* the value calculate_total_score appends to score[col] for team;
\* round(x, 1) leaves the multiples of 0.5 it is applied to unchanged.
calculate_total_score(week_data, team, col) ==
    IF col \in {nYear, nWeek, nTeam} THEN week_data[col][team]
    ELSE IF col = nScore THEN
        SumSeq([k \in 1..Len(scoring_stats_list) |->
                   calculate_stat_score(week_data[scoring_stats_list[k][1]], team)])
    ELSE IF col = nMatchup_Wins THEN calculate_matchup_wins(week_data, team)
    ELSE IF col = nWeek_Result THEN week_data[nWin][team]
    ELSE calculate_stat_score(week_data[col], team)

generate_this_weeks_score(week_data) ==
    [c \in Range(initialize_week_score) |->
        [team \in 1..num_teams |-> calculate_total_score(week_data, team, c)]]

organize_this_weeks_data(filled) ==
    LET week_score == generate_this_weeks_score(filled)
        week_data == [c \in DOMAIN filled \cup {nScore, nMatchup_Wins, nWeek_Result} |->
                         IF c \in {nScore, nMatchup_Wins, nWeek_Result}
                         THEN week_score[c] ELSE filled[c]]
    IN [week_data |-> week_data, week_score |-> week_score]

\* pd.DataFrame.from_dict(d): a RangeIndex 0..n-1 over the column lists
from_dict(d) ==
    LET n == Len(d[nTeam]) IN DataFrame([i \in 1..n |-> i - 1], d)

concat(a, b) ==
    DataFrame(a.index \o b.index, [c \in DOMAIN a.cols |-> a.cols[c] \o b.cols[c]])

create_dfs(week_data) == from_dict(week_data)

update_dfs(all_data, week_data) == concat(all_data, from_dict(week_data))

\* Team_id numbered through the whole frame instead of within each week
update_indexes_running(frame) ==
    DataFrame([i \in 1..Len(frame.index) |-> i - 1],
              [c \in DOMAIN frame.cols \cup {nTeam_id} |->
                  IF c = nTeam_id
                  THEN [i \in 1..Len(frame.index) |-> i]
                  ELSE frame.cols[c]])

\* reset_index + rename(index -> Team_id) + add(1), for one DataFrame
update_indexes(frame) ==
    DataFrame([i \in 1..Len(frame.index) |-> i - 1],
              [c \in DOMAIN frame.cols \cup {nTeam_id} |->
                  IF c = nTeam_id
                  THEN [i \in 1..Len(frame.index) |-> frame.index[i] + 1]
                  ELSE frame.cols[c]])

\* the loop of organize_week_data_headone from week w on; acc carries the
\* attributes the loop updates, ok = FALSE once an exception has escaped.
RECURSIVE organize_weeks(_, _, _)
organize_weeks(raw, w, acc) ==
    IF w > Len(raw) \/ ~acc.ok THEN acc
    ELSE LET drop == acc.drop \o initialize_week_data.dropped
             fw   == fill_in_week_data(raw, w)
         IN IF ~fw.ok \/ Len(raw[w]) < num_teams
            THEN [acc EXCEPT !.ok = FALSE, !.drop = drop]
            ELSE LET wk == organize_this_weeks_data(fw.week_data)
                 IN organize_weeks(raw, w + 1,
                        [ok |-> TRUE, drop |-> drop,
                         final |-> IF w = 1 THEN create_dfs(wk.week_data)
                                   ELSE update_dfs(acc.final, wk.week_data),
                         score |-> IF w = 1 THEN create_dfs(wk.week_score)
                                   ELSE update_dfs(acc.score, wk.week_score)])

\* the same method without the test of data_present: the weeks of whatever
\* raw_data holds are organized
organize_week_data_headone_unchecked ==
    /\ org_state = "none"
    /\ \E r \in {organize_weeks(raw_data, 1,
                    [ok |-> TRUE, drop |-> stats_drop_list,
                     final |-> final_data, score |-> score_data])} :
          IF r.ok /\ r.final.df THEN
              /\ org_state' = "done"
              /\ final_data' = update_indexes(r.final)
              /\ score_data' = update_indexes(r.score)
              /\ stats_drop_list' = r.drop
              /\ saved' = TRUE
          ELSE
              /\ org_state' = "error"
              /\ final_data' = r.final
              /\ score_data' = r.score
              /\ stats_drop_list' = r.drop
              /\ UNCHANGED saved
    /\ UNCHANGED <<file_present, raw_data, vis_state, vis_data, active_option, season_table>>
    /\ UNCHANGED not_teams

\* Teams_Weekly_Data_Organizer(setup): __init__ runs organize_week_data_headone
organize_week_data_headone ==
    /\ org_state = "none"
    /\ IF ~file_present THEN
           /\ org_state' = "not_ready"
           /\ UNCHANGED <<final_data, score_data, stats_drop_list, saved>>
       ELSE
           \E r \in {organize_weeks(raw_data, 1,
                        [ok |-> TRUE, drop |-> stats_drop_list,
                         final |-> final_data, score |-> score_data])} :
              IF r.ok /\ r.final.df THEN
                  /\ org_state' = "done"
                  /\ final_data' = update_indexes(r.final)
                  /\ score_data' = update_indexes(r.score)
                  /\ stats_drop_list' = r.drop
                  /\ saved' = TRUE
              ELSE
                  /\ org_state' = "error"
                  /\ final_data' = r.final
                  /\ score_data' = r.score
                  /\ stats_drop_list' = r.drop
                  /\ UNCHANGED saved
    /\ UNCHANGED <<file_present, raw_data, vis_state, vis_data, active_option, season_table>>
    /\ UNCHANGED not_teams

\* -------------------------------------------- Visualize_Teams_Season_Data
\* Data_Visualization.__init__ followed by Visualize_Teams_Season_Data.__init__:
\* final_data.copy() raises AttributeError on None, which leaves valid_input False.
Visualize_Teams_Season_Data ==
    /\ org_state \in {"done", "not_ready"}
    /\ vis_state = "none"
    /\ IF final_data.df
       THEN /\ vis_state' = "valid"
            /\ vis_data' = final_data
       ELSE /\ vis_state' = "invalid"
            /\ UNCHANGED vis_data
    /\ UNCHANGED <<file_present, raw_data, org_state, final_data, score_data,
                   stats_drop_list, saved, active_option, season_table>>
    /\ UNCHANGED not_teams

\* the index of pd.pivot_table(..., index=['Team']): the team names, sorted
pivot_index(data) ==
    LET names == Range(data.cols[nTeam])
    IN [k \in 1..Cardinality(names) |->
           CHOOSE nm \in names :
               Cardinality({o \in names : NameRank(o) < NameRank(nm)}) = k - 1]

\* pd.pivot_table(data.drop(columns=[Team_id, Week, Week_Result, Year]),
\*                index=['Team'], aggfunc=np.sum)
pivot_table(data) ==
    LET idx == pivot_index(data)
        kept == DOMAIN data.cols \ {nTeam_id, nWeek, nWeek_Result, nYear, nTeam}
    IN DataFrame(idx,
           [c \in kept |->
               [k \in 1..Len(idx) |->
                   SumSeq([r \in 1..Len(data.index) |->
                              IF data.cols[nTeam][r] = idx[k]
                              THEN data.cols[c][r] ELSE 0])]])

\* mutant: the summed weekly percentages are kept
season_percentage_summed(table, stat_name, k) ==
    py_div(table.cols[stat_name][k], 1000)

\* season_table[numerator].div(season_table[denominator]) at row k
season_percentage(table, stat_name, k) ==
    LET numerator   == py_split(stat_name, "%")[1] \o <<"M">>
        denominator == py_split(stat_name, "%")[1] \o <<"A">>
    IN py_div(table.cols[numerator][k], table.cols[denominator][k])

season_table_filter ==
    [k \in 1..Len(scoring_stats_list) |-> scoring_stats_list[k][1]] \o
    <<nGP, nScore, nMatchup_Wins, nWin>>

\* the rows in ascending order of the keys
sort_values_asc(keys) ==
    [p \in 1..Len(keys) |->
        CHOOSE r \in 1..Len(keys) :
            Cardinality({j \in 1..Len(keys) : keys[j] < keys[r]})
            + Cardinality({j \in 1..(r - 1) : keys[j] = keys[r]}) = p - 1]

\* sort_values(by=[col], ascending=False): the permutation of the rows; rows
\* with equal keys keep their order (numpy sorts short arrays by insertion).
sort_values_desc(keys) ==
    [p \in 1..Len(keys) |->
        CHOOSE r \in 1..Len(keys) :
            Cardinality({j \in 1..Len(keys) : keys[j] > keys[r]})
            + Cardinality({j \in 1..(r - 1) : keys[j] = keys[r]}) = p - 1]

season_table_of(data) ==
    LET pv == pivot_table(data)
        withpct == [c \in DOMAIN pv.cols |->
                       IF \E k \in 1..Len(scoring_stats_list) :
                              scoring_stats_list[k] = <<c, "percentage">>
                       THEN [r \in 1..Len(pv.index) |-> season_percentage(pv, c, r)]
                       ELSE pv.cols[c]]
        order == sort_values_desc(withpct[nMatchup_Wins])
    IN DataFrame([p \in 1..Len(order) |-> pv.index[order[p]]],
                 [c \in Range(season_table_filter) |->
                     [p \in 1..Len(order) |-> withpct[c][order[p]]]])

create_season_table ==
    /\ vis_state = "valid"
    /\ active_option' = 1
    /\ season_table' = season_table_of(vis_data)
    /\ UNCHANGED <<file_present, raw_data, org_state, final_data, score_data,
                   stats_drop_list, saved, vis_state, vis_data>>
    /\ UNCHANGED not_teams

\* ---------------------------------------------- Visualize_Teams_Week_Data
\* Data_Visualization.__init__ followed by Visualize_Teams_Week_Data.__init__:
\* copies of final_data and score_data, the organizer's stats_drop_list itself
\* (the one list, which stays in stats_drop_list), week 1 and last_week.
Visualize_Teams_Week_Data ==
    /\ org_state \in {"done", "not_ready"}
    /\ week_state = "none"
    /\ IF final_data.df
       THEN /\ week_state' = "valid"
            /\ week_vis_data' = final_data
            /\ week_vis_score' = score_data
            /\ week' = 1
            /\ last_week' = current_week
       ELSE /\ week_state' = "invalid"
            /\ UNCHANGED <<week_vis_data, week_vis_score, week, last_week>>
    /\ UNCHANGED <<current_week, week_option, week_table_data, week_score_data,
                   comparison_week_data>>
    /\ UNCHANGED <<teams_vars, not_week>>

\* change_week(new_week)
change_week ==
    /\ week_state = "valid"
    /\ \E new_week \in 0..(MaxWeeks + 2) :
          week' = IF new_week \in 1..last_week THEN new_week ELSE week
    /\ UNCHANGED <<current_week, week_state, last_week, week_vis_data, week_vis_score,
                   week_option, week_table_data, week_score_data, comparison_week_data>>
    /\ UNCHANGED <<teams_vars, not_week>>

\* frame[frame['Week'] == w]: the positions of the rows of week w
week_rows(frame, w) ==
    SelectSeq([r \in 1..Len(frame.index) |-> r], LAMBDA r : frame.cols[nWeek][r] = w)

\* the rows at the given positions, in that order
select_rows(frame, rows) ==
    DataFrame([k \in 1..Len(rows) |-> frame.index[rows[k]]],
              [c \in DOMAIN frame.cols |->
                  [k \in 1..Len(rows) |-> frame.cols[c][rows[k]]]])

\* frame.drop(columns=labels): KeyError (ok = FALSE) for a label that is no
\* column; a label that is listed twice is dropped like one listed once
drop_columns(frame, labels) ==
    [ok |-> labels \subseteq DOMAIN frame.cols,
     frame |-> DataFrame(frame.index,
                   [c \in DOMAIN frame.cols \ labels |-> frame.cols[c]])]

\* sort_values(by=['Score'], ascending=False, inplace=True)
sort_by_score(frame) == select_rows(frame, sort_values_desc(frame.cols[nScore]))

\* the attributes of the week visualizer its methods work on; ok = FALSE once
\* an exception has escaped
week_visualizer ==
    [ok |-> TRUE, week |-> week, option |-> week_option, table |-> week_table_data,
     score |-> week_score_data, drops |-> stats_drop_list,
     comparison |-> comparison_week_data]

\* week_table_drops = self.stats_drop_list;
\* week_table_drops.extend(['Team_id', 'Year', 'Win']): the one shared list grows
week_table_drops(drops) == drops \o <<nTeam_id, nYear, nWin>>

\* create_week_table on the attributes v.  The styled table of a week without
\* rows is exported by the libraries or not (empty_ok); everything before the
\* export has happened either way.
create_week_table_on(v, empty_ok) ==
    IF ~v.ok THEN v
    ELSE LET rows == week_rows(week_vis_data, v.week)
             of_week == drop_columns(select_rows(week_vis_data, rows), {nWeek}).frame
             kept == drop_columns(of_week, Range(week_table_drops(v.drops)))
         IN [v EXCEPT !.option = 1,
                      !.drops = week_table_drops(v.drops),
                      !.table = IF kept.ok THEN sort_by_score(kept.frame) ELSE of_week,
                      !.ok = kept.ok /\ (rows # <<>> \/ empty_ok)]

\* create_week_score on the attributes v (the model's frames carry no Manager
\* column, which the method drops with Team_id and Year)
create_week_score_on(v, empty_ok) ==
    IF ~v.ok THEN v
    ELSE LET rows == week_rows(week_vis_score, v.week)
             of_week == drop_columns(select_rows(week_vis_score, rows), {nWeek}).frame
             kept == drop_columns(of_week, {nTeam_id, nYear})
         IN [v EXCEPT !.option = 2,
                      !.score = IF kept.ok THEN sort_by_score(kept.frame) ELSE of_week,
                      !.ok = kept.ok /\ (rows # <<>> \/ empty_ok)]

\* create_stats_comparison: week_data is assigned first; the comparison of a
\* week without rows ends in a KeyError
create_stats_comparison_on(v) ==
    IF ~v.ok THEN v
    ELSE LET rows == week_rows(week_vis_data, v.week)
             of_week == drop_columns(select_rows(week_vis_data, rows), {nWeek}).frame
         IN [v EXCEPT !.comparison = drop_columns(of_week, {nTeam_id, nYear, nWin}).frame,
                      !.ok = rows # <<>>]

\* the attributes v written back to the object
week_visualizer_becomes(v) ==
    /\ week' = v.week
    /\ week_option' = v.option
    /\ week_table_data' = v.table
    /\ week_score_data' = v.score
    /\ stats_drop_list' = v.drops
    /\ comparison_week_data' = v.comparison
    /\ UNCHANGED <<current_week, week_state, last_week, week_vis_data, week_vis_score>>
    /\ UNCHANGED <<file_present, raw_data, org_state, final_data, score_data, saved,
                   vis_state, vis_data, active_option, season_table>>
    /\ UNCHANGED not_week

\* the visualizer exists and its list of drops is short enough to go on
can_visualize_week ==
    /\ week_state = "valid"
    /\ Len(stats_drop_list) < MaxDropList

create_week_table ==
    /\ can_visualize_week
    /\ \E empty_ok \in BOOLEAN :
          week_visualizer_becomes(create_week_table_on(week_visualizer, empty_ok))

create_week_score ==
    /\ can_visualize_week
    /\ \E empty_ok \in BOOLEAN :
          week_visualizer_becomes(create_week_score_on(week_visualizer, empty_ok))

\* for week in range(1, last_week + 1): self.week = week; create_week_table();
\* create_week_score()
RECURSIVE all_weeks(_, _, _)
all_weeks(v, w, empty_ok) ==
    IF w > last_week \/ ~v.ok THEN v
    ELSE all_weeks(
            create_week_score_on(
               create_week_table_on([v EXCEPT !.week = w], empty_ok), empty_ok),
            w + 1, empty_ok)

generate_all_visualizations ==
    /\ can_visualize_week
    /\ \E empty_ok \in BOOLEAN :
          week_visualizer_becomes(all_weeks(week_visualizer, 1, empty_ok))

\* for i in range(1, len(teams_names) + 1): if i != team_id:
\*     create_stats_comparison(team_id, i)
RECURSIVE all_comparisons(_, _, _)
all_comparisons(v, team_id, i) ==
    IF i > NumTeams THEN v
    ELSE all_comparisons(IF i # team_id THEN create_stats_comparison_on(v) ELSE v,
                         team_id, i + 1)

\* generate_last_week_visualizations: the week before last_week, its table and
\* score, then the comparisons of the team that is typed in
generate_last_week_visualizations ==
    /\ can_visualize_week
    /\ \E empty_ok \in BOOLEAN, team_id \in 1..NumTeams :
          week_visualizer_becomes(
             all_comparisons(
                create_week_score_on(
                   create_week_table_on(
                      [week_visualizer EXCEPT !.week = last_week - 1], empty_ok),
                   empty_ok),
                team_id, 1))

\* ------------------------------------------- Extract_Players_Season_Data
\* self.starting_point = 2017, kept when the stopping-point file is not there
starting_point_default == 2017

\* the seasons of the objects update_player_id_database is called on
ExtractionSeasons == starting_point_default..season

\* stands for the ids '4626', '3708' and '4905', which are never listed
excluded_ids == {NumPlayers + 1}

\* get_team_roster_player_stats_by_week answers with the player ids of a
\* roster; the leagues considered give their teams these rosters, in turn
RosterLists == << <<>>, <<1, 2>>, <<2, NumPlayers>>, <<NumPlayers, NumPlayers + 1, 1>> >>

Leagues ==
    {[t \in 1..NumTeams |-> RosterLists[((t + k) % Len(RosterLists)) + 1]] :
        k \in 1..Len(RosterLists)}

\* the roster of team_id in the given week: the rosters move on by one team a week
get_team_roster_player_stats_by_week(league, chosen_week, team_id) ==
    league[((team_id + chosen_week - 2) % NumTeams) + 1]

NoJson == [present |-> FALSE, ids |-> <<>>, season |-> 0, info |-> <<>>]

\* save_to_json of the id list, of players_info and of the season
ids_json(ids) == [NoJson EXCEPT !.present = TRUE, !.ids = ids]
info_json(info) == [NoJson EXCEPT !.present = TRUE, !.info = info]
season_json(s) == [NoJson EXCEPT !.present = TRUE, !.season = s]

\* the scan is needed for a season the files do not cover yet, and also for
\* the season they end with
scan_needed_ge(season_, starting_point) == season_ >= starting_point

\* if int(self.season) > int(self.starting_point)
scan_needed(season_, starting_point) == season_ > starting_point

\* the body of `for player in team` for one player: a new id that is not
\* excluded is listed, and both files are written at once
RECURSIVE scan_roster(_, _, _)
scan_roster(acc, team, season_) ==
    IF team = <<>> THEN acc
    ELSE scan_roster(
            IF Head(team) \notin Range(acc.ids) /\ Head(team) \notin excluded_ids
            THEN [acc EXCEPT !.ids = Append(@, Head(team)),
                             !.info = Append(@, <<season_, Head(team)>>),
                             !.ids_file = ids_json(Append(acc.ids, Head(team))),
                             !.teams_file = info_json(Append(acc.info, <<season_, Head(team)>>))]
            ELSE acc,
            Tail(team), season_)

\* the loops over the weeks and the teams from query q on (team after team,
\* week after week); the query numbered fail_at raises and ends the call
RECURSIVE scan_rosters(_, _, _, _, _, _)
scan_rosters(acc, q, weeks, league, fail_at, season_) ==
    IF q > weeks * NumTeams THEN acc
    ELSE IF q = fail_at THEN [acc EXCEPT !.ok = FALSE, !.queries = q]
    ELSE scan_rosters(
            scan_roster([acc EXCEPT !.queries = q],
                        get_team_roster_player_stats_by_week(
                            league, ((q - 1) \div NumTeams) + 1, ((q - 1) % NumTeams) + 1),
                        season_),
            q + 1, weeks, league, fail_at, season_)

\* what update_player_id_database has read when it reaches the test
read_player_id_database ==
    [ok |-> TRUE, queries |-> 0,
     ids |-> IF ids_file.present THEN ids_file.ids ELSE <<>>,
     info |-> <<>>,
     starting_point |-> IF stopping_file.present THEN stopping_file.season
                        ELSE starting_point_default,
     ids_file |-> ids_file, teams_file |-> teams_file]

\* the attributes and files a call leaves
player_id_database_becomes(r, season_, scanned) ==
    /\ ex_state' = IF r.ok THEN "done" ELSE "raised"
    /\ ex_season' = season_
    /\ ex_relevant_players_ids' = r.ids
    /\ ex_players_info' = r.info
    /\ ex_starting_point' = r.starting_point
    /\ ex_queries' = r.queries
    /\ ids_file' = r.ids_file
    /\ teams_file' = r.teams_file
    /\ stopping_file' = IF r.ok /\ scanned THEN season_json(season_) ELSE stopping_file
    /\ completed_season' = IF r.ok /\ season_ > completed_season THEN season_
                           ELSE completed_season

\* Extract_Players_Season_Data(setup).update_player_id_database() for a setup of
\* the given season and current week, against a league's rosters
update_player_id_database ==
    /\ \E season_ \in ExtractionSeasons, weeks \in 1..MaxWeeks, league \in Leagues :
       \E fail_at \in 0..(weeks * NumTeams) :
          IF scan_needed(season_, read_player_id_database.starting_point)
          THEN player_id_database_becomes(
                  scan_rosters(read_player_id_database, 1, weeks, league, fail_at, season_),
                  season_, TRUE)
          ELSE player_id_database_becomes(read_player_id_database, season_, FALSE)
    /\ UNCHANGED <<teams_vars, players_vars, models_vars, week_vars>>

\* ------------------------------------------------ Players_Data_Organizer
\* for player_id in active_players_list:
\*     if player_id not in list(data.keys()): data[player_id] = [0]*num_stats
RECURSIVE pad_missing(_, _, _)
pad_missing(data, actives, n) ==
    IF actives = <<>> THEN data
    ELSE LET p == Head(actives)
             d == IF p \in Range(data.keys) THEN data
                  ELSE PyDict(Append(data.keys, p),
                              [q \in Range(data.keys) \cup {p} |->
                                  IF q = p THEN [pos \in 0..(n - 1) |-> 0]
                                  ELSE data.rows[q]])
         IN pad_missing(d, Tail(actives), n)

\* the inner loop of create_average_stats over one player's list
RECURSIVE average_row(_, _)
average_row(row, stats) ==
    IF stats = <<>> THEN row
    ELSE average_row(
            IF row[6] > 0
            THEN [row EXCEPT ![Head(stats)] = (row[Head(stats)] * Scale) \div row[6]]
            ELSE row,
            Tail(stats))

\* the loop run a second time over the lists it already changed
create_average_stats_twice(raw_dict, stats) ==
    PyDict(raw_dict.keys,
           [k \in Range(raw_dict.keys) |->
               average_row(average_row(raw_dict.rows[k], stats), stats)])

create_average_stats(raw_dict, stats) ==
    PyDict(raw_dict.keys,
           [k \in Range(raw_dict.keys) |-> average_row(raw_dict.rows[k], stats)])

\* raw_dict once create_average_stats has returned: data = raw_dict.copy()
\* copies the dict and not its lists, so the loop wrote into raw_dict's lists
raw_dict_after_average(raw_dict, stats) ==
    PyDict(raw_dict.keys,
           [k \in Range(raw_dict.keys) |-> average_row(raw_dict.rows[k], stats)])

\* pd.DataFrame.from_dict(d, orient='index'): one row per key, in key order
from_dict_index(d) ==
    DataFrame(d.keys,
              IF d.keys = <<>> THEN <<>>
              ELSE [c \in DOMAIN d.rows[d.keys[1]] |->
                       [i \in 1..Len(d.keys) |-> d.rows[d.keys[i]][c]]])

\* avg_df[X_columns].copy(); a column label is <<position, suffix>>
pre_process_data(avg_df, columns) ==
    DataFrame(avg_df.index,
              [l \in {<<c, "">> : c \in Range(columns)} |-> avg_df.cols[l[1]]])

\* the multipliers with the turnovers counted as a gain
multiplier_TO_gain ==
    [FG |-> <<80, 90>>, FT |-> <<150, 100>>, TPM |-> 60, PTS |-> 8, REB |-> 18,
     AST |-> 30, ST |-> 130, BLK |-> 90, TO |-> 40]

\* the multipliers, in tenths
multiplier ==
    [FG |-> <<80, 90>>, FT |-> <<150, 100>>, TPM |-> 60, PTS |-> 8, REB |-> 18,
     AST |-> 30, ST |-> 130, BLK |-> 90, TO |-> 0 - 40]

\* the same with the first weight of the category on both sides of the baseline
percentage_points_one_weight(pct, att, made, base, mult) ==
    IF att > 0 THEN (100 * made - base * att) * mult[1] ELSE 0

\* (made/att - base) * att * multiplier, with base in hundredths
percentage_points(pct, att, made, base, mult) ==
    IF att > 0
    THEN (100 * made - base * att) * mult[IF pct * 100 > base * Scale THEN 1 ELSE 2]
    ELSE 0

\* points_list of one row of the averages table
points_list(season_, player_stats) ==
    LET cats == <<percentage_points(player_stats[11], player_stats[9],
                                    player_stats[10], 46, multiplier.FG),
                  percentage_points(player_stats[14], player_stats[12],
                                    player_stats[13], 78, multiplier.FT),
                  100 * player_stats[16] * multiplier.TPM,
                  100 * player_stats[18] * multiplier.PTS,
                  100 * player_stats[21] * multiplier.REB,
                  100 * player_stats[22] * multiplier.AST,
                  100 * player_stats[23] * multiplier.ST,
                  100 * player_stats[24] * multiplier.BLK,
                  100 * player_stats[25] * multiplier.TO>>
    IN <<season_, player_stats[2]>> \o cats \o <<SumSeq(cats)>>

calculate_points(avg_stats_df, season_) ==
    LET ix == avg_stats_df.index
        stats(i) == [c \in DOMAIN avg_stats_df.cols |-> avg_stats_df.cols[c][i]]
        pos(id) == CHOOSE i \in 1..Len(ix) : ix[i] = id
    IN [points_dict |->
            PyDict(ix, [id \in Range(ix) |->
                          [c \in {0} |-> points_list(season_, stats(pos(id)))[12]]]),
        points_breakdown |->
            PyDict(ix, [id \in Range(ix) |-> points_list(season_, stats(pos(id)))]),
        player_info |->
            PyDict(ix, [id \in Range(ix) |->
                          [c \in 0..2 |-> stats(pos(id))[<<2, 5, 4>>[c + 1]]]])]

\* The body of the season loop of organize_player_data; ok = FALSE stands for
\* the AttributeError of data.keys() when read_raw_data_json returned 0.
organize_season(acc, s) ==
    IF ~acc.ok THEN acc
    ELSE IF ~players_files[s].present THEN [acc EXCEPT !.ok = FALSE]
    ELSE
      LET data == pad_missing(players_files[s], acc.actives, num_stats)
          avg == from_dict_index(create_average_stats(data, stats_to_take_average))
          pts == calculate_points(avg, s)
          basic == [acc EXCEPT
                      !.avg_dfs = [t \in DOMAIN @ \cup {s} |-> IF t = s THEN avg ELSE @[t]],
                      !.X_dfs = [t \in DOMAIN @ \cup {s} |->
                                    IF t = s THEN pre_process_data(avg, X_columns) ELSE @[t]],
                      !.y_dfs = [t \in DOMAIN @ \cup {s} |->
                                    IF t = s THEN from_dict_index(pts.points_dict) ELSE @[t]],
                      !.player_info = [t \in DOMAIN @ \cup {s} |->
                                    IF t = s THEN pts.player_info ELSE @[t]],
                      !.points_breakdown = [t \in DOMAIN @ \cup {s} |->
                                    IF t = s THEN pts.points_breakdown ELSE @[t]]]
      IN IF s <= advanced_after THEN basic
         ELSE IF ~advanced_files[s].present THEN [basic EXCEPT !.ok = FALSE]
         ELSE
           LET advanced_data ==
                   pad_missing(advanced_files[s], acc.actives, num_stats_advanced)
               advanced_avg ==
                   from_dict_index(create_average_stats(
                       advanced_data, stats_to_take_average_advanced))
           IN [basic EXCEPT
                 !.avg_dfs_advanced =
                     [t \in DOMAIN @ \cup {s} |-> IF t = s THEN advanced_avg ELSE @[t]],
                 !.X_dfs_advanced =
                     [t \in DOMAIN @ \cup {s} |->
                         IF t = s THEN pre_process_data(advanced_avg, X_columns_advanced)
                         ELSE @[t]]]

RECURSIVE organize_seasons(_, _)
organize_seasons(acc, s) ==
    IF s > LastSeason THEN acc ELSE organize_seasons(organize_season(acc, s), s + 1)

\* Players_Data_Organizer.__init__: list(set(ids)) yields the ids in an order
\* the hash seed decides, then organize_player_data runs over all seasons.
organize_player_data ==
    /\ players_state = "none"
    /\ \E order \in Orderings(relevant_players_ids) :
       \E r \in {organize_seasons(
                    [ok |-> TRUE, actives |-> order, avg_dfs |-> <<>>, X_dfs |-> <<>>,
                     y_dfs |-> <<>>, player_info |-> <<>>, points_breakdown |-> <<>>,
                     avg_dfs_advanced |-> <<>>, X_dfs_advanced |-> <<>>],
                    first_season)} :
          /\ active_players_list' = order
          /\ players_state' = IF r.ok THEN "done" ELSE "error"
          /\ avg_dfs' = r.avg_dfs
          /\ X_dfs' = r.X_dfs
          /\ y_dfs' = r.y_dfs
          /\ player_info' = r.player_info
          /\ points_breakdown' = r.points_breakdown
          /\ avg_dfs_advanced' = r.avg_dfs_advanced
          /\ X_dfs_advanced' = r.X_dfs_advanced
    /\ UNCHANGED <<players_files, advanced_files, analysis_state, analysis_year,
                   predictions, ranking, training>>
    /\ UNCHANGED not_players

\* --------------------------------------------------------- pandas helpers
PosOf(ix, id) == CHOOSE k \in 1..Len(ix) : ix[k] = id

Positions(n) == [i \in 1..n |-> i]

\* str(label) + suffix
Suffixed(l, sfx) == <<l[1], l[2] \o sfx>>

\* pd.merge(left, right, suffixes=(ls, rs), left_index=True, right_index=True):
\* an inner join on the index labels that keeps the order of the left keys and
\* suffixes the column labels the two frames share.
merge(left, right, ls, rs) ==
    LET ix == SelectSeq(left.index, LAMBDA id : id \in Range(right.index))
        both == DOMAIN left.cols \cap DOMAIN right.cols
        lname(l) == IF l \in both THEN Suffixed(l, ls) ELSE l
        rname(l) == IF l \in both THEN Suffixed(l, rs) ELSE l
        LL == {lname(l) : l \in DOMAIN left.cols}
        RL == {rname(l) : l \in DOMAIN right.cols}
    IN DataFrame(ix,
         [l \in LL \cup RL |->
            IF l \in LL
            THEN LET o == CHOOSE o \in DOMAIN left.cols : lname(o) = l
                 IN [i \in 1..Len(ix) |-> left.cols[o][PosOf(left.index, ix[i])]]
            ELSE LET o == CHOOSE o \in DOMAIN right.cols : rname(o) = l
                 IN [i \in 1..Len(ix) |-> right.cols[o][PosOf(right.index, ix[i])]]])

\* pd.concat(frames) of a non-empty list of frames with the same columns
RECURSIVE concat_all(_)
concat_all(frames) ==
    IF Len(frames) = 1 THEN frames[1]
    ELSE concat(frames[1], concat_all(Tail(frames)))

\* reset_index(drop=True)
reset_index(frame) ==
    DataFrame([i \in 1..Len(frame.index) |-> i - 1], frame.cols)

\* the rows of a frame at the given positions
take(frame, keep) ==
    DataFrame([k \in 1..Len(keep) |-> frame.index[keep[k]]],
              [c \in DOMAIN frame.cols |->
                  [k \in 1..Len(keep) |-> frame.cols[c][keep[k]]]])

\* frame.drop(index=labels): KeyError (ok = FALSE) when a label is not found
drop(frame, labels) ==
    [ok |-> Range(labels) \subseteq Range(frame.index),
     frame |-> take(frame, SelectSeq(Positions(Len(frame.index)),
                                     LAMBDA i : frame.index[i] \notin Range(labels)))]

\* the same loop with `and` for `or`: only rows idle in every season are found
zero_games_rows_all(frame, gp_columns) ==
    LET hit == SelectSeq(Positions(Len(frame.index)),
                         LAMBDA i : \A l \in gp_columns : frame.cols[l][i] = 0)
    IN [k \in 1..Len(hit) |-> frame.index[hit[k]]]

\* the loop over iterrows() that collects the labels of the rows with zero
\* games played in one of the given columns
zero_games_rows(frame, gp_columns) ==
    LET hit == SelectSeq(Positions(Len(frame.index)),
                         LAMBDA i : \E l \in gp_columns : frame.cols[l][i] = 0)
    IN [k \in 1..Len(hit) |-> frame.index[hit[k]]]

\* frame.columns = names (ValueError, ok = FALSE, on a length mismatch) for a
\* frame whose columns are labelled 0..k-1
set_columns(frame, names) ==
    [ok |-> Cardinality(DOMAIN frame.cols) = Len(names),
     frame |-> DataFrame(frame.index,
                   [c \in Range(names) |-> frame.cols[PosOf(names, c) - 1]])]

\* frame[name] = values
with_column(frame, name, values) ==
    DataFrame(frame.index,
              [c \in DOMAIN frame.cols \cup {name} |->
                  IF c = name THEN values ELSE frame.cols[c]])

\* the values of a labelled column brought to the labels of another index
\* (assignment of a Series or one-column DataFrame aligns on the index)
align(ix, values, target) ==
    [i \in 1..Len(target) |->
        IF target[i] \in Range(ix) THEN values[PosOf(ix, target[i])] ELSE "NaN"]

\* rank() with the default ascending=True
rank_ascending(values) ==
    [i \in 1..Len(values) |->
        2 * Cardinality({j \in 1..Len(values) : values[j] < values[i]})
        + Cardinality({j \in 1..Len(values) : values[j] = values[i]}) + 1]

\* rank(ascending=False), method 'average', counted in half ranks
rank(values) ==
    [i \in 1..Len(values) |->
        2 * Cardinality({j \in 1..Len(values) : values[j] > values[i]})
        + Cardinality({j \in 1..Len(values) : values[j] = values[i]}) + 1]

\* the same for a column of fractions
rank_fractions(values) ==
    [i \in 1..Len(values) |->
        2 * Cardinality({j \in 1..Len(values) :
                            values[j].n * values[i].d > values[i].n * values[j].d})
        + Cardinality({j \in 1..Len(values) :
                            values[j].n * values[i].d = values[i].n * values[j].d}) + 1]

RECURSIVE row_sum(_, _, _)
row_sum(cols, C, i) ==
    IF C = {} THEN 0
    ELSE LET c == CHOOSE c \in C : TRUE
         IN cols[c][i] + row_sum(cols, C \ {c}, i)

\* mean(axis=1) over the given columns
mean(frame, C) ==
    [i \in 1..Len(frame.index) |-> py_div(row_sum(frame.cols, C, i), Cardinality(C))]

\* Series.sub of a column of fractions and a column of numbers
sub(fractions, values) ==
    [i \in 1..Len(fractions) |->
        py_div(fractions[i].n - values[i] * fractions[i].d, fractions[i].d)]

\* --------------------------------------------------- Analyze_Players_Data
\* Analyze_Players_Data.__init__ on an organizer that finished: it keeps
\* references to the organizer's tables.
Analyze_Players_Data ==
    /\ players_state = "done"
    /\ analysis_state = "none"
    /\ analysis_state' = "valid"
    /\ UNCHANGED <<players_files, advanced_files, players_state, active_players_list,
                   avg_dfs, X_dfs, y_dfs, player_info, points_breakdown,
                   avg_dfs_advanced, X_dfs_advanced, analysis_year, predictions,
                   ranking, training>>
    /\ UNCHANGED not_players

\* list(self.X_dfs.keys()): the seasons in insertion order
X_dfs_keys == [k \in 1..Cardinality(DOMAIN X_dfs) |-> first_season + k - 1]

\* What a fitted model returns for the test row of player p.  The regressors are
\* library code: their output is any function of the row, here one of a few
\* shapes ("exact" is the player's actual value in the predicted year).
Output(shape, p, year) ==
    CASE shape = "up"    -> p * 1000 * Scale
      [] shape = "down"  -> (NumPlayers + 1 - p) * 1000 * Scale
      [] shape = "flat"  -> 2 * 1000 * Scale
      [] shape = "spike" -> IF p = 1 THEN 10 * 1000 * Scale ELSE 0
      [] shape = "exact" -> y_dfs[year].cols[0][PosOf(y_dfs[year].index, p)]

\* the outputs taken for the analyses run by hand
RunOutputs == {<<"down", "up", "flat", "spike">>}

ModelOutputs ==
    {<<"exact", "exact", "exact", "exact">>,
     <<"down", "up", "flat", "spike">>,
     <<"spike", "down", "down", "up">>,
     <<"flat", "flat", "flat", "flat">>}

\* models = models_template.copy(): a new list of the same estimator objects
list_copy(l) == [k \in 1..Len(l) |-> l[k]]

\* the estimators the loop has called fit on when it ends: none when the first
\* fit raises, the first one when its predict raises, else all of them
fitted_models(models, X, y, X_test) ==
    IF Len(X.index) = 0 \/ Len(X.index) # Len(y.index) THEN <<>>
    ELSE IF Len(X_test.index) = 0 THEN SubSeq(models, 1, 1)
    ELSE models

\* for model in models: model.fit(X, y); predictions.append(model.predict(X_test))
\* followed by pd.DataFrame(predictions).transpose().  fit and predict raise
\* ValueError (ok = FALSE) on an empty matrix or on X and y of different length.
fit_predict(models, X, y, X_test, outputs, year) ==
    [ok |-> /\ Len(X.index) > 0
            /\ Len(X.index) = Len(y.index)
            /\ Len(X_test.index) > 0,
     fitted |-> fitted_models(models, X, y, X_test),
     frame |-> DataFrame([i \in 1..Len(X_test.index) |-> i - 1],
                   [c \in 0..(Len(model_names) - 1) |->
                       [i \in 1..Len(X_test.index) |->
                           Output(outputs[c + 1], X_test.index[i], year)]])]

\* pred['Reality'] = y_real, assigned before the mean is taken
prediction_average_after_reality(pred, y_real) ==
    LET r == with_column(pred, "Reality", align(y_real.index, y_real.cols[0], pred.index))
    IN with_column(r, "Average", mean(r, DOMAIN r.cols))

\* pred['Average'] = pred.mean(axis=1); pred['Reality'] = y_real
prediction_average(pred, y_real) ==
    LET a == with_column(pred, "Average", mean(pred, DOMAIN pred.cols))
    IN with_column(a, "Reality", align(y_real.index, y_real.cols[0], a.index))

\* ranking["Reality"] = y_real.rank(ascending=False)
ranking_reality(ranking_, y_real) ==
    with_column(ranking_, "Reality",
                align(y_real.index, rank(y_real.cols[0]), ranking_.index))

\* for model in self.model_names: ranking[model] = pred[model].rank(ascending=False)
ranking_models(ranking_, pred) ==
    DataFrame(ranking_.index,
              [c \in DOMAIN ranking_.cols \cup Range(model_names) |->
                  IF c \in Range(model_names) THEN rank(pred.cols[c])
                  ELSE ranking_.cols[c]])

\* the same with the mean taken over every column but the three text columns
ranking_averages_with_reality(ranking_, pred) ==
    with_column(
        with_column(ranking_, "Average Prediction",
            mean(ranking_, DOMAIN ranking_.cols \ {"Player", "Position", "Team"})),
        "Ranking of Averages", rank_fractions(pred.cols["Average"]))

\* ranking['Average Prediction'] and ranking['Ranking of Averages']
ranking_averages(ranking_, pred) ==
    with_column(
        with_column(ranking_, "Average Prediction",
            mean(ranking_,
                 DOMAIN ranking_.cols \ {"Player", "Position", "Team", "Reality"})),
        "Ranking of Averages", rank_fractions(pred.cols["Average"]))

\* ranking['Avg_Rank_err'], ranking['Rank_of_Avg_err'] and the _err column of
\* each model: the column minus ranking["Reality"]
ranking_errors(ranking_) ==
    DataFrame(ranking_.index,
        [c \in DOMAIN ranking_.cols \cup {"Avg_Rank_err", "Rank_of_Avg_err"}
                   \cup {m \o "_err" : m \in Range(model_names)} |->
            IF c = "Avg_Rank_err"
            THEN sub(ranking_.cols["Average Prediction"], ranking_.cols["Reality"])
            ELSE IF c = "Rank_of_Avg_err"
            THEN [i \in 1..Len(ranking_.index) |->
                     ranking_.cols["Ranking of Averages"][i] - ranking_.cols["Reality"][i]]
            ELSE IF c \in DOMAIN ranking_.cols THEN ranking_.cols[c]
            ELSE LET m == CHOOSE m \in Range(model_names) : m \o "_err" = c
                 IN [i \in 1..Len(ranking_.index) |->
                        ranking_.cols[m][i] - ranking_.cols["Reality"][i]]])

\* error = ranking[names[i]].abs().sum(), the number printed for a model
error_sum(ranking_, model) ==
    LET e == ranking_.cols[model \o "_err"]
    IN SumSeq([i \in 1..Len(e) |-> IF e[i] < 0 THEN 0 - e[i] ELSE e[i]])

\* The frames are changed in place, so a failure leaves them as they were at
\* the failing statement.
analyse_predictions(pred, ranking_, y_real, drop_list) ==
    LET r1 == set_columns(ranking_, <<"Player", "Position", "Team">>)
        p1 == set_columns(pred, model_names)
        r2 == drop(r1.frame, drop_list)
        r3 == ranking_reality(r2.frame, y_real)
        p3 == prediction_average(DataFrame(r3.index, p1.frame.cols), y_real)
        r9 == ranking_errors(ranking_averages(ranking_models(r3, p3), p3))
    IN IF ~r1.ok THEN [ok |-> FALSE, pred |-> pred, ranking |-> ranking_]
       ELSE IF ~p1.ok THEN [ok |-> FALSE, pred |-> pred, ranking |-> r1.frame]
       ELSE IF ~r2.ok THEN [ok |-> FALSE, pred |-> p1.frame, ranking |-> r1.frame]
       ELSE IF Len(p1.frame.index) # Len(r3.index)
            THEN [ok |-> FALSE, pred |-> p1.frame, ranking |-> r3]
       ELSE [ok |-> TRUE, pred |-> p3, ranking |-> r9]

\* For the rows of a list of frames, in concatenation order: the player the
\* row came from and the season of its block (kept beside the matrices; the
\* program itself discards the labels at reset_index).
RECURSIVE sources(_, _)
sources(frames, block_seasons) ==
    IF frames = <<>> THEN <<>>
    ELSE [i \in 1..Len(frames[1].index) |-> <<frames[1].index[i], block_seasons[1]>>]
         \o sources(Tail(frames), Tail(block_seasons))

\* the sources of the rows a drop() left, found through their position labels
kept_sources(frame, all) == [k \in 1..Len(frame.index) |-> all[frame.index[k] + 1]]

NotAssigned == [ok |-> FALSE, assigned |-> FALSE, fitted |-> <<>>]

\* The common end of the three generate_analysis methods: the drops, the fit,
\* the prediction frame, the ranking frame from player_info[2020] and
\* analyse_predictions.  L is the window length, X_years / y_years the lists of
\* training blocks that start at the seasons starts.
analysis_of(models_template, L, starts, X_years, y_years, gp_columns, X_test0, y_real0, year, outputs) ==
    LET X_L == reset_index(concat_all(X_years))
        y_L == reset_index(concat_all(y_years))
        drop_list == zero_games_rows(X_L, gp_columns)
        dX == drop(X_L, drop_list)
        dy == drop(y_L, drop_list)
        test_drop_list == zero_games_rows(X_test0, gp_columns)
        tX == drop(X_test0, test_drop_list)
        ty == drop(y_real0, test_drop_list)
        fp == fit_predict(list_copy(models_template), dX.frame, dy.frame, tX.frame,
                         outputs, year)
        ap == analyse_predictions(fp.frame, from_dict_index(player_info[LastSeason]),
                                  ty.frame, test_drop_list)
    IN IF /\ dX.ok /\ dy.ok /\ tX.ok /\ ty.ok /\ fp.ok
          /\ LastSeason \in DOMAIN player_info
       THEN [ok |-> ap.ok, assigned |-> TRUE, fitted |-> fp.fitted,
             predictions |-> ap.pred, ranking |-> ap.ranking,
             training |->
                [X |-> dX.frame, y |-> dy.frame,
                 X_src |-> kept_sources(dX.frame, sources(X_years, starts)),
                 y_src |-> kept_sources(dy.frame,
                               sources(y_years, [k \in 1..Len(starts) |-> starts[k] + L])),
                 X_test |-> tX.frame, y_real |-> ty.frame,
                 test_drop_list |-> test_drop_list,
                 starts |-> starts, outputs |-> outputs]]
       ELSE [NotAssigned EXCEPT
               !.fitted = IF dX.ok /\ dy.ok /\ tX.ok /\ ty.ok THEN fp.fitted ELSE <<>>]

\* a KeyError on a season the tables do not hold is ok = FALSE
generate_analysis_3_years(models_template, year, outputs) ==
    LET starts == SelectSeq(X_dfs_keys, LAMBDA s : s < year - 3)
        three(s) == merge(merge(X_dfs[s], X_dfs[s + 1], "_3", "_2"),
                          X_dfs[s + 2], "", "_1")
    IN IF /\ \A k \in 1..Len(starts) :
                /\ {starts[k] + 1, starts[k] + 2} \subseteq DOMAIN X_dfs
                /\ starts[k] + 3 \in DOMAIN y_dfs
          /\ Len(starts) > 0
          /\ {year - 3, year - 2, year - 1} \subseteq DOMAIN X_dfs
          /\ year \in DOMAIN y_dfs
       THEN analysis_of(models_template, 3, starts,
                [k \in 1..Len(starts) |-> three(starts[k])],
                [k \in 1..Len(starts) |-> y_dfs[starts[k] + 3]],
                {<<6, "_3">>, <<6, "_2">>, <<6, "">>},
                three(year - 3), y_dfs[year], year, outputs)
       ELSE NotAssigned

generate_analysis_2_years(models_template, year, outputs) ==
    LET starts == SelectSeq(X_dfs_keys, LAMBDA s : s < year - 2)
        two(s) == merge(X_dfs[s], X_dfs[s + 1], "_2", "_1")
    IN IF /\ \A k \in 1..Len(starts) :
                /\ starts[k] + 1 \in DOMAIN X_dfs
                /\ starts[k] + 2 \in DOMAIN y_dfs
          /\ Len(starts) > 0
          /\ {year - 2, year - 1} \subseteq DOMAIN X_dfs
          /\ year \in DOMAIN y_dfs
       THEN analysis_of(models_template, 2, starts,
                [k \in 1..Len(starts) |-> two(starts[k])],
                [k \in 1..Len(starts) |-> y_dfs[starts[k] + 2]],
                {<<6, "_2">>, <<6, "_1">>},
                two(year - 2), y_dfs[year], year, outputs)
       ELSE NotAssigned

\* the ranges run one season further, up to the predicted year
training_seasons_1_through(year) ==
    [k \in 1..(year - first_season) |-> first_season + k - 1]

\* range(2012, year-1) for the features (and range(2013, year), the seasons
\* after them, for the targets)
training_seasons_1(year) ==
    [k \in 1..(year - 1 - first_season) |-> first_season + k - 1]

generate_analysis_1_year(models_template, year, outputs) ==
    LET starts == training_seasons_1(year)
    IN IF /\ Len(starts) > 0
          /\ \A k \in 1..Len(starts) :
                starts[k] \in DOMAIN X_dfs /\ starts[k] + 1 \in DOMAIN y_dfs
          /\ year - 1 \in DOMAIN X_dfs
          /\ year \in DOMAIN y_dfs
       THEN analysis_of(models_template, 1, starts,
                [k \in 1..Len(starts) |-> X_dfs[starts[k]]],
                [k \in 1..Len(starts) |-> y_dfs[starts[k] + 1]],
                {<<6, "">>},
                X_dfs[year - 1], y_dfs[year], year, outputs)
       ELSE NotAssigned

\* a list of newly constructed estimators, one per model name; the estimators
\* made so far are 1..made
new_models(made) == [k \in 1..Len(model_names) |-> made + k]

\* model.fit called on each estimator of fitted, for the training window
record_fits(f, fitted, window) ==
    [i \in DOMAIN f |-> IF i \in Range(fitted) THEN Append(f[i], window) ELSE f[i]]

\* generate_all_analysis(year): three lists of new estimators, then the three
\* analyses in turn; an exception in one of them ends the call and leaves what
\* was assigned before it.
generate_all_analysis ==
    /\ analysis_state = "valid"
    /\ \E year \in Seasons, outputs \in ModelOutputs :
       \E r3 \in {generate_analysis_3_years(new_models(Len(fits)), year, outputs)} :
       \E r2 \in {IF r3.ok
                  THEN generate_analysis_2_years(
                          new_models(Len(fits) + Len(model_names)), year, outputs)
                  ELSE NotAssigned} :
       \E r1 \in {IF r2.ok
                  THEN generate_analysis_1_year(
                          new_models(Len(fits) + 2 * Len(model_names)), year, outputs)
                  ELSE NotAssigned} :
       LET r == <<r1, r2, r3>> IN
          /\ fits' = record_fits(
                        record_fits(
                           record_fits(fits \o [k \in 1..(3 * Len(model_names)) |-> <<>>],
                                       r3.fitted, <<3, year>>),
                           r2.fitted, <<2, year>>),
                        r1.fitted, <<1, year>>)
          /\ analysis_year' = year
          /\ analysis_state' = IF r1.ok THEN "done" ELSE "error"
          /\ predictions' = [L \in 1..3 |->
                IF r[L].assigned THEN r[L].predictions ELSE predictions[L]]
          /\ ranking' = [L \in 1..3 |->
                IF r[L].assigned THEN r[L].ranking ELSE ranking[L]]
          /\ training' = [L \in 1..3 |->
                IF r[L].assigned THEN r[L].training ELSE training[L]]
    /\ UNCHANGED <<players_files, advanced_files, players_state, active_players_list,
                   avg_dfs, X_dfs, y_dfs, player_info, points_breakdown,
                   avg_dfs_advanced, X_dfs_advanced, models_list>>
    /\ UNCHANGED not_analysis

\* What one of the generate_analysis methods leaves when its caller runs it
\* with the list models_list: the tables of window length L, and the fits.
analysis_run(L, r, year) ==
    /\ predictions' = [predictions EXCEPT ![L] = IF r.assigned THEN r.predictions ELSE @]
    /\ ranking' = [ranking EXCEPT ![L] = IF r.assigned THEN r.ranking ELSE @]
    /\ training' = [training EXCEPT ![L] = IF r.assigned THEN r.training ELSE @]
    /\ fits' = record_fits(fits, r.fitted, <<L, year>>)
    /\ UNCHANGED <<players_files, advanced_files, players_state, active_players_list,
                   avg_dfs, X_dfs, y_dfs, player_info, points_breakdown,
                   avg_dfs_advanced, X_dfs_advanced, analysis_state, analysis_year,
                   models_list>>
    /\ UNCHANGED not_analysis

\* the caller has a list of estimators, none of them fitted MaxFits times yet
can_run_analysis ==
    /\ analysis_state # "none"
    /\ models_list # <<>>
    /\ \A k \in 1..Len(models_list) : Len(fits[models_list[k]]) < MaxFits

\* analyzer.generate_analysis_3_years(models_list, year), called directly
call_generate_analysis_3_years ==
    /\ can_run_analysis
    /\ \E year \in Seasons, outputs \in RunOutputs :
          analysis_run(3, generate_analysis_3_years(models_list, year, outputs), year)

\* analyzer.generate_analysis_2_years(models_list, year), called directly
call_generate_analysis_2_years ==
    /\ can_run_analysis
    /\ \E year \in Seasons, outputs \in RunOutputs :
          analysis_run(2, generate_analysis_2_years(models_list, year, outputs), year)

\* analyzer.generate_analysis_1_year(models_list, year), called directly
call_generate_analysis_1_year ==
    /\ can_run_analysis
    /\ \E year \in Seasons, outputs \in RunOutputs :
          analysis_run(1, generate_analysis_1_year(models_list, year, outputs), year)

\* ------------------------------------------------------------ specification
\* no object of the players pipeline exists
PlayersIdle ==
    /\ players_state = "none"
    /\ active_players_list = <<>>
    /\ avg_dfs = <<>>
    /\ X_dfs = <<>>
    /\ y_dfs = <<>>
    /\ player_info = <<>>
    /\ points_breakdown = <<>>
    /\ avg_dfs_advanced = <<>>
    /\ X_dfs_advanced = <<>>
    /\ analysis_state = "none"
    /\ analysis_year = 0
    /\ predictions = [L \in 1..3 |-> NoneDF]
    /\ ranking = [L \in 1..3 |-> NoneDF]
    /\ training = [L \in 1..3 |-> <<>>]

\* no extraction has run: none of its files is there
ExtractionIdle ==
    /\ ids_file = NoJson
    /\ stopping_file = NoJson
    /\ teams_file = NoJson
    /\ ex_state = "none"
    /\ ex_season = 0
    /\ ex_relevant_players_ids = <<>>
    /\ ex_players_info = <<>>
    /\ ex_starting_point = 0
    /\ ex_queries = 0
    /\ completed_season = 0

\* no week visualizer exists
WeekIdle ==
    /\ week_state = "none"
    /\ week = 0
    /\ last_week = 0
    /\ week_vis_data = NoneDF
    /\ week_vis_score = NoneDF
    /\ week_option = 0
    /\ week_table_data = NoneDF
    /\ week_score_data = NoneDF
    /\ comparison_week_data = NoneDF

\* Extract_Week_Data writes the weeks range(1, current_week + week_has_begun),
\* week_has_begun being 0 or 1: the league is in the last week of the file or
\* in the week after it
CurrentWeeks(raw) == {Len(raw), Len(raw) + 1} \ {0}

\* nobody holds a list of estimators
ModelsIdle ==
    /\ models_list = <<>>
    /\ fits = <<>>

Init ==
    /\ players_files = <<>>
    /\ advanced_files = <<>>
    /\ PlayersIdle
    /\ ModelsIdle
    /\ WeekIdle
    /\ ExtractionIdle
    /\ file_present \in BOOLEAN
    /\ raw_data \in (IF file_present THEN RawSeasons ELSE {<<>>})
    /\ current_week = IF raw_data = <<>> THEN 1 ELSE Len(raw_data)  \* week_has_begun = 1
    /\ org_state = "none"
    /\ final_data = NoneDF
    /\ score_data = NoneDF
    /\ stats_drop_list = <<>>
    /\ saved = FALSE
    /\ vis_state = "none"
    /\ vis_data = NoneDF
    /\ active_option = 0
    /\ season_table = NoneDF

Next ==
    \/ organize_week_data_headone
    \/ Visualize_Teams_Season_Data
    \/ create_season_table

Spec == Init /\ [][Next]_vars

\* The players pipeline: the season files are on disk, no team object exists.
InitPlayers ==
    /\ file_present = FALSE
    /\ raw_data = <<>>
    /\ org_state = "none"
    /\ final_data = NoneDF
    /\ score_data = NoneDF
    /\ stats_drop_list = <<>>
    /\ saved = FALSE
    /\ vis_state = "none"
    /\ vis_data = NoneDF
    /\ active_option = 0
    /\ season_table = NoneDF
    /\ players_files \in PlayersFiles
    /\ advanced_files = AdvancedFiles(players_files)
    /\ PlayersIdle
    /\ ModelsIdle
    /\ WeekIdle
    /\ ExtractionIdle
    /\ current_week = 1

NextPlayers ==
    \/ organize_player_data
    \/ Analyze_Players_Data
    \/ generate_all_analysis

SpecPlayers == InitPlayers /\ [][NextPlayers]_vars

\* The analyses run by hand: every season is on disk, and the caller has built
\* one list of estimators that it hands to the generate_analysis methods.
InitModels ==
    /\ file_present = FALSE
    /\ raw_data = <<>>
    /\ org_state = "none"
    /\ final_data = NoneDF
    /\ score_data = NoneDF
    /\ stats_drop_list = <<>>
    /\ saved = FALSE
    /\ vis_state = "none"
    /\ vis_data = NoneDF
    /\ active_option = 0
    /\ season_table = NoneDF
    /\ players_files = [s \in Seasons |-> SeasonFile(s, relevant_players_ids, {})]
    /\ advanced_files = AdvancedFiles(players_files)
    /\ PlayersIdle
    /\ WeekIdle
    /\ ExtractionIdle
    /\ current_week = 1
    /\ models_list = new_models(0)
    /\ fits = [k \in 1..Len(model_names) |-> <<>>]

NextModels ==
    \/ organize_player_data
    \/ Analyze_Players_Data
    \/ generate_all_analysis
    \/ call_generate_analysis_3_years
    \/ call_generate_analysis_2_years
    \/ call_generate_analysis_1_year

SpecModels == InitModels /\ [][NextModels]_vars

\* The weekly visualizations: seasons in which every team has played, with
\* the results 1, 0.5 and 0 in the first week.
WeekSeasons ==
    {s \in RawSeasons :
        /\ s # <<>>
        /\ s[1][1].Win = 2
        /\ s[1][2].Win = 1
        /\ \A i \in 3..NumTeams : s[1][i].Win = 0 /\ s[1][i].GP = <<"3">>}

InitWeek ==
    /\ players_files = <<>>
    /\ advanced_files = <<>>
    /\ PlayersIdle
    /\ ModelsIdle
    /\ WeekIdle
    /\ ExtractionIdle
    /\ file_present \in BOOLEAN
    /\ raw_data \in (IF file_present THEN WeekSeasons ELSE {<<>>})
    /\ current_week \in CurrentWeeks(raw_data)
    /\ org_state = "none"
    /\ final_data = NoneDF
    /\ score_data = NoneDF
    /\ stats_drop_list = <<>>
    /\ saved = FALSE
    /\ vis_state = "none"
    /\ vis_data = NoneDF
    /\ active_option = 0
    /\ season_table = NoneDF

NextWeek ==
    \/ organize_week_data_headone
    \/ Visualize_Teams_Season_Data
    \/ create_season_table
    \/ Visualize_Teams_Week_Data
    \/ change_week
    \/ create_week_table
    \/ create_week_score
    \/ generate_all_visualizations
    \/ generate_last_week_visualizations

SpecWeek == InitWeek /\ [][NextWeek]_vars

\* The extraction of the player ids, on its own: calls of
\* update_player_id_database on objects of the seasons, one after the other.
InitExtraction ==
    /\ Init
    /\ ~file_present

NextExtraction == update_player_id_database

SpecExtraction == InitExtraction /\ [][NextExtraction]_vars

\* ------------------------------------------------------------------ claims
\* the rows of the organized frames that belong to the week of row r, r excluded
Opponents(r) ==
    {q \in 1..Len(final_data.index) :
        q # r /\ final_data.cols[nWeek][q] = final_data.cols[nWeek][r]}

ScoringNames == {scoring_stats_list[k][1] : k \in 1..Len(scoring_stats_list)}

\* signed category margin of row r over row q, counted from the stored values
Margin(r, q) ==
    Cardinality({c \in ScoringNames : final_data.cols[c][r] > final_data.cols[c][q]})
    - Cardinality({c \in ScoringNames : final_data.cols[c][r] < final_data.cols[c][q]})

\* C1: a team's category score is the sum over all n-1 other teams of the week
\* (idle teams included) of 1 for a greater value, 0.5 for an equal one and 0
\* otherwise, hence within [0, n-1] (here in half points).
C1_StatScore ==
    org_state = "done" =>
        \A r \in 1..Len(score_data.index) : \A c \in ScoringNames :
            LET v == final_data.cols[c] IN
            /\ Cardinality(Opponents(r)) = num_teams - 1
            /\ score_data.cols[c][r] =
                   2 * Cardinality({q \in Opponents(r) : v[r] > v[q]})
                   + Cardinality({q \in Opponents(r) : v[r] = v[q]})
            /\ score_data.cols[c][r] \in 0..(2 * (num_teams - 1))

C1_Witness ==
    /\ org_state = "done"
    /\ \E r \in 1..Len(score_data.index) :
          /\ score_data.cols[nPTS][r] = 3
          /\ \E q \in Opponents(r) : final_data.cols[nGP][q] = 0

C3_RoundRobinTotal ==
    org_state = "done" =>
        \A r \in 1..Len(score_data.index) :
            score_data.cols[nMatchup_Wins][r]
            + SumSeq([q \in 1..Len(score_data.index) |->
                         IF q \in Opponents(r)
                         THEN score_data.cols[nMatchup_Wins][q] ELSE 0])
            = num_teams * (num_teams - 1)

C3_Witness ==
    /\ org_state = "done"
    /\ Len(raw_data) = MaxWeeks
    /\ \E r \in 1..Len(score_data.index) :
          /\ final_data.cols[nWeek][r] = MaxWeeks
          /\ \E q \in Opponents(r) : Margin(r, q) = 0
          /\ \E q \in Opponents(r) : Margin(r, q) > 0

\* C4: a team's category score plus the points all its opponents score against
\* it is n-1, and two values always share exactly one point.
C4_PairwiseSplit ==
    org_state = "done" =>
        \A r \in 1..Len(score_data.index) : \A c \in ScoringNames :
            LET v == final_data.cols[c] IN
            /\ score_data.cols[c][r]
               + SumSeq([q \in 1..Len(v) |->
                            IF q \in Opponents(r)
                            THEN won_at_this_stat(v[q], v[r]) ELSE 0])
               = 2 * (num_teams - 1)
            /\ \A q \in 1..Len(v) :
                   won_at_this_stat(v[r], v[q]) + won_at_this_stat(v[q], v[r]) = 2

C4_Witness ==
    /\ org_state = "done"
    /\ \E r \in 1..Len(score_data.index) :
          /\ \E q \in Opponents(r) : final_data.cols[nPTS][q] = final_data.cols[nPTS][r]
          /\ \E q \in Opponents(r) : final_data.cols[nPTS][q] < final_data.cols[nPTS][r]
          /\ score_data.cols[nPTS][r] = 3

\* made / attempted counters of team nm summed over the organized weeks
SeasonCounter(col, nm) ==
    SumSeq([r \in 1..Len(final_data.index) |->
               IF final_data.cols[nTeam][r] = nm THEN final_data.cols[col][r] ELSE 0])

\* C5: the season table shows, for every team with attempts, the quotient of
\* the summed made and the summed attempted counters, whatever the weekly
\* percentages were.
C5_SeasonPercentage ==
    season_table.df =>
        \A p \in 1..Len(season_table.index) :
            LET made == SeasonCounter(separate_fraction(nFGMA)[1], season_table.index[p])
                att  == SeasonCounter(separate_fraction(nFGMA)[2], season_table.index[p])
                shown == season_table.cols[nFGP][p]
            IN att > 0 =>
                   /\ ~shown.nan
                   /\ shown.d > 0
                   /\ shown.n * att = made * shown.d

\* weeks 2/2 and 0/8 of one team give 2/10 = 1/5
C5_Witness ==
    /\ season_table.df
    /\ \E p \in 1..Len(season_table.index) :
          /\ season_table.cols[nFGP][p] = [nan |-> FALSE, n |-> 1, d |-> 5]
          /\ \E r1, r2 \in 1..Len(vis_data.index) :
                /\ vis_data.cols[nTeam][r1] = season_table.index[p]
                /\ vis_data.cols[nTeam][r2] = season_table.index[p]
                /\ vis_data.cols[nFGP][r1] = 1000
                /\ vis_data.cols[nFGP][r2] = 0
                /\ vis_data.cols[nWeek][r1] # vis_data.cols[nWeek][r2]

\* ------------------------------------------- claims on the players pipeline
\* the window lengths whose analysis has been run
Analysed == {L \in 1..3 : predictions[L].df}

GamesPlayed(p, s) == avg_dfs[s].cols[6][PosOf(avg_dfs[s].index, p)]

PointsOf(p, s) == y_dfs[s].cols[0][PosOf(y_dfs[s].index, p)]

FeatureOf(p, s, c) == X_dfs[s].cols[<<c, "">>][PosOf(X_dfs[s].index, p)]

\* the season a feature column of a window with target season T stands for
WindowSeason(sfx, T) ==
    CASE sfx = "_3" -> T - 3
      [] sfx = "_2" -> T - 2
      [] OTHER      -> T - 1

\* C6: for each window length, no row of the training matrix and no row of the
\* test matrix belongs to a player with zero games played in one of the seasons
\* of its window, and the target rows are dropped together with the feature rows.
C6_NoIdleRows ==
    \A L \in Analysed :
        LET t == training[L] IN
        /\ \A k \in 1..Len(t.X.index) : \A j \in 0..(L - 1) :
              GamesPlayed(t.X_src[k][1], t.X_src[k][2] + j) # 0
        /\ \A k \in 1..Len(t.X_test.index) : \A j \in 1..L :
              GamesPlayed(t.X_test.index[k], analysis_year - j) # 0
        /\ t.y.index = t.X.index
        /\ Range(t.y_real.index) = Range(t.X_test.index)
        /\ Range(t.test_drop_list) \cap Range(t.y_real.index) = {}

C6_Witness ==
    /\ analysis_state = "done"
    /\ training[2].test_drop_list # <<>>
    /\ Len(training[2].X.index) < Len(training[2].starts) * NumPlayers
    /\ Len(training[2].X.index) > 0

\* C7: a window with target season T holds the features of the seasons T-L..T-1;
\* the training blocks start at exactly the seasons s with s+L <= Y-1 and have
\* target season s+L, the test block holds the seasons Y-L..Y-1 with target Y,
\* and season Y is no part of the training set.
C7_Windows ==
    \A L \in Analysed :
        LET t == training[L]
            Y == analysis_year
        IN
        /\ Range(t.starts) = {s \in Seasons : s + L <= Y - 1}
        /\ \A k \in 1..Len(t.X.index) :
              LET p == t.X_src[k][1]
                  T == t.X_src[k][2] + L
              IN /\ T <= Y - 1
                 /\ t.y_src[k][2] = T
                 /\ {WindowSeason(l[2], T) : l \in DOMAIN t.X.cols} = (T - L)..(T - 1)
                 /\ \A l \in DOMAIN t.X.cols :
                       t.X.cols[l][k] = FeatureOf(p, WindowSeason(l[2], T), l[1])
                 /\ t.y.cols[0][k] = PointsOf(t.y_src[k][1], T)
        /\ \A k \in 1..Len(t.X_test.index) :
              LET p == t.X_test.index[k] IN
              /\ {WindowSeason(l[2], Y) : l \in DOMAIN t.X_test.cols} = (Y - L)..(Y - 1)
              /\ \A l \in DOMAIN t.X_test.cols :
                    t.X_test.cols[l][k] = FeatureOf(p, WindowSeason(l[2], Y), l[1])
              /\ t.y_real.cols[0][PosOf(t.y_real.index, p)] = PointsOf(p, Y)

C7_Witness ==
    /\ analysis_state = "done"
    /\ analysis_year < LastSeason
    /\ Len(training[3].X.index) > 0
    /\ Len(training[1].starts) > Len(training[3].starts)

\* C8: every training row pairs the features of one player in the seasons
\* s..s+L-1 with the points of that same player in season s+L.
C8_TrainingPairs ==
    \A L \in Analysed :
        LET t == training[L] IN
        \A k \in 1..Len(t.X.index) :
            t.y.cols[0][k] = PointsOf(t.X_src[k][1], t.X_src[k][2] + L)

\* C9: the row of the prediction table labelled p holds what the models
\* returned for the test row of p, and its Reality is the actual value of p in
\* the predicted season.
C9_PredictionRows ==
    \A L \in Analysed :
        LET pr == predictions[L]
            t == training[L]
        IN "Reality" \in DOMAIN pr.cols =>
           \A i \in 1..Len(pr.index) :
              LET p == pr.index[i] IN
              /\ p \in Range(t.X_test.index)
              /\ \A c \in 1..Len(model_names) :
                    pr.cols[model_names[c]][i] = Output(t.outputs[c], p, analysis_year)
              /\ pr.cols["Reality"][i] = PointsOf(p, analysis_year)

\* C10: the Average of every row of the prediction table is the unweighted mean
\* of the four model columns of the row, without the Reality column.
C10_Average ==
    \A L \in Analysed :
        LET pr == predictions[L] IN
        "Average" \in DOMAIN pr.cols =>
           \A i \in 1..Len(pr.index) :
              pr.cols["Average"][i] =
                 py_div(pr.cols["forest"][i] + pr.cols["lasso"][i]
                        + pr.cols["elastic"][i] + pr.cols["ridge"][i], 4)

C10_Witness ==
    /\ analysis_state = "done"
    /\ \E L \in Analysed : \E i \in 1..Len(predictions[L].index) :
          LET pr == predictions[L]
              total == pr.cols["forest"][i] + pr.cols["lasso"][i]
                       + pr.cols["elastic"][i] + pr.cols["ridge"][i]
          IN /\ pr.cols["forest"][i] # pr.cols["lasso"][i]
             /\ 4 * pr.cols["Reality"][i] # total
             /\ pr.cols["Average"][i].n * 4 = total * pr.cols["Average"][i].d

\* twice the descending rank of row i of a column: the rows that share a value
\* share the mean of the places they take when the largest value comes first
DescendingRank(values, i) ==
    LET above == Cardinality({j \in 1..Len(values) : values[j] > values[i]})
        level == Cardinality({j \in 1..Len(values) : values[j] = values[i]})
    IN (above + 1) + (above + level)

\* the actual values, in the predicted season, of the players of a ranking table
Actual(rk) == [i \in 1..Len(rk.index) |-> PointsOf(rk.index[i], analysis_year)]

\* the rows of a column are ordered as the actual values are
OrdersAsReality(values, actual) ==
    \A i, j \in 1..Len(values) : (values[i] > values[j]) <=> (actual[i] > actual[j])

\* what model number c returned for the players of a ranking table
Predicted(rk, t, c) ==
    [i \in 1..Len(rk.index) |-> Output(t.outputs[c], rk.index[i], analysis_year)]

\* C11: for every model and player the rank error is the descending rank of
\* what the model predicted for the player minus the descending rank of the
\* player's actual value, signed; a model that orders the players as reality
\* does has rank error 0 for every player and a reported sum of absolute rank
\* errors of 0.
C11_RankError ==
    \A L \in Analysed :
        LET rk == ranking[L]
            t == training[L]
        IN "ridge_err" \in DOMAIN rk.cols =>
           \A c \in 1..Len(model_names) :
              LET m == model_names[c] IN
              /\ \A i \in 1..Len(rk.index) :
                    rk.cols[m \o "_err"][i] =
                       DescendingRank(Predicted(rk, t, c), i)
                       - DescendingRank(Actual(rk), i)
              /\ OrdersAsReality(Predicted(rk, t, c), Actual(rk)) =>
                    /\ \A i \in 1..Len(rk.index) : rk.cols[m \o "_err"][i] = 0
                    /\ error_sum(rk, m) = 0

\* the sum of the four model columns of a row
ModelTotal(frame, i) ==
    frame.cols["forest"][i] + frame.cols["lasso"][i]
    + frame.cols["elastic"][i] + frame.cols["ridge"][i]

\* a fraction equals num / den
IsRatio(fraction, num, den) == fraction.n * den = num * fraction.d

\* C12: 'Average Prediction' is the mean of the four model ranks of the row and
\* of nothing else, 'Ranking of Averages' is the descending rank of the mean of
\* the four raw predictions, and Avg_Rank_err and Rank_of_Avg_err are the one
\* and the other minus the Reality rank.
C12_TwoAggregations ==
    \A L \in Analysed :
        LET rk == ranking[L]
            pr == predictions[L]
        IN "Rank_of_Avg_err" \in DOMAIN rk.cols =>
           \A i \in 1..Len(rk.index) :
              LET reality == DescendingRank(Actual(rk), i)
                  of_means == DescendingRank(
                                 [k \in 1..Len(pr.index) |-> ModelTotal(pr, k)], i)
              IN /\ IsRatio(rk.cols["Average Prediction"][i], ModelTotal(rk, i), 4)
                 /\ rk.cols["Ranking of Averages"][i] = of_means
                 /\ IsRatio(rk.cols["Avg_Rank_err"][i],
                            ModelTotal(rk, i) - 4 * reality, 4)
                 /\ rk.cols["Rank_of_Avg_err"][i] = of_means - reality

C12_Witness ==
    /\ analysis_state = "done"
    /\ \E L \in Analysed : \E i \in 1..Len(ranking[L].index) :
          LET rk == ranking[L] IN
          /\ ~IsRatio(rk.cols["Average Prediction"][i],
                      rk.cols["Ranking of Averages"][i], 1)
          /\ ~IsRatio(rk.cols["Avg_Rank_err"][i], rk.cols["Rank_of_Avg_err"][i], 1)
          /\ ~IsRatio(rk.cols["Average Prediction"][i],
                      ModelTotal(rk, i) + rk.cols["Reality"][i], 5)

\* the rank columns of a finished ranking table, each with the column of
\* values it ranks
RankColumns(rk, pr) ==
    {<<rk.cols["Reality"], Actual(rk)>>,
     <<rk.cols["Ranking of Averages"], [k \in 1..Len(pr.index) |-> ModelTotal(pr, k)]>>}
    \cup {<<rk.cols[m], pr.cols[m]>> : m \in Range(model_names)}

\* C13: ranks are descending: the retained player whose actual value in the
\* target season is the highest has Reality rank 1 and the smallest Reality of
\* the table, and in every rank column a larger value never has a larger rank
\* number than a smaller value.
C13_Descending ==
    \A L \in Analysed :
        LET rk == ranking[L]
            pr == predictions[L]
        IN "Ranking of Averages" \in DOMAIN rk.cols =>
           /\ \A i \in 1..Len(rk.index) :
                 (\A j \in 1..Len(rk.index) \ {i} : Actual(rk)[i] > Actual(rk)[j]) =>
                    /\ rk.cols["Reality"][i] = 2 * 1
                    /\ \A j \in 1..Len(rk.index) \ {i} :
                          rk.cols["Reality"][i] < rk.cols["Reality"][j]
           /\ \A rc \in RankColumns(rk, pr) :
                 \A i, j \in 1..Len(rk.index) :
                    rc[2][i] > rc[2][j] => rc[1][i] <= rc[1][j]

C13_Witness ==
    /\ analysis_state = "done"
    /\ \E L \in Analysed :
          LET rk == ranking[L] IN
          /\ Len(rk.index) = NumPlayers
          /\ \E i \in 2..Len(rk.index) :
                /\ \A j \in 1..Len(rk.index) \ {i} : Actual(rk)[i] > Actual(rk)[j]
                /\ rk.cols["Reality"][i] = 2
          /\ \E i, j \in 1..Len(rk.index) :
                i # j /\ rk.cols["ridge"][i] = rk.cols["ridge"][j]

\* the per-game value of statistic c of player p in season s
AverageOf(p, s, c) == avg_dfs[s].cols[c][PosOf(avg_dfs[s].index, p)]

\* the points_list of player p in season s: season, name, the nine category
\* contributions and their total
Breakdown(p, s) == points_breakdown[s].rows[p]

\* the statistic and the weight, in tenths, of the seven volume categories, in
\* the order of the points_list (3PTM, PTS, REB, AST, ST, BLK, TO)
VolumeWeights ==
    <<<<16, 60>>, <<18, 8>>, <<21, 18>>, <<22, 30>>, <<23, 130>>, <<24, 90>>,
      <<25, 0 - 40>>>>

\* C14: the points of every player are the sum of the nine category
\* contributions; a volume category contributes value * weight, and the weight
\* of the turnovers is negative, so that of two players the one with more
\* turnovers has no larger turnover contribution.
C14_PointsSum ==
    \A s \in DOMAIN y_dfs : \A p \in Range(y_dfs[s].index) :
        LET b == Breakdown(p, s) IN
        /\ Len(b) = 12
        /\ PointsOf(p, s) = b[3] + b[4] + b[5] + b[6] + b[7] + b[8] + b[9] + b[10] + b[11]
        /\ b[12] = PointsOf(p, s)
        /\ \A k \in 1..7 :
              b[4 + k] = AverageOf(p, s, VolumeWeights[k][1]) * 100 * VolumeWeights[k][2]
        /\ b[11] <= 0
        /\ \A q \in Range(y_dfs[s].index) :
              AverageOf(q, s, 25) > AverageOf(p, s, 25) => Breakdown(q, s)[11] < b[11]

C14_Witness ==
    /\ players_state = "done"
    /\ \E s \in DOMAIN y_dfs : \E p, q \in Range(y_dfs[s].index) :
          /\ AverageOf(p, s, 25) > AverageOf(q, s, 25)
          /\ Breakdown(p, s)[11] < 0
          /\ Breakdown(p, s)[3] < 0
          /\ Breakdown(p, s)[5] > 0
          /\ PointsOf(p, s) > 0

\* the percentage categories: place in the points_list, the columns of the
\* percentage, the attempts and the makes, the baseline in hundredths and the
\* weights, in tenths, above and below the baseline
PercentageCategories ==
    {[at |-> 3, pct |-> 11, att |-> 9, made |-> 10, base |-> 46, over |-> 80, under |-> 90],
     [at |-> 4, pct |-> 14, att |-> 12, made |-> 13, base |-> 78, over |-> 150, under |-> 100]}

\* (made / attempts - baseline) * attempts * weight at the scale of the points
RatioPoints(p, s, c, weight) ==
    (100 * AverageOf(p, s, c.made) - c.base * AverageOf(p, s, c.att)) * weight

\* C15 as stated: a percentage category contributes (ratio - baseline) * volume
\* * category weight, and below the baseline the category weight is applied
\* with its sign flipped.
C15_SignFlipped ==
    \A s \in DOMAIN y_dfs : \A p \in Range(y_dfs[s].index) :
        \A c \in PercentageCategories :
            AverageOf(p, s, c.att) > 0 =>
               Breakdown(p, s)[c.at] =
                  RatioPoints(p, s, c,
                      IF 100 * AverageOf(p, s, c.made) < c.base * AverageOf(p, s, c.att)
                      THEN 0 - c.over ELSE c.over)

\* C15 amended: with attempts, a percentage category contributes (ratio -
\* baseline) * volume * weight, where the weight is the first weight of the
\* category (FG% 8, FT% 15) when the recorded percentage is above the
\* baseline and its second weight (FG% 9, FT% 10) otherwise; both are
\* positive, so a ratio below the baseline contributes a negative amount.
C15_TwoWeights ==
    \A s \in DOMAIN y_dfs : \A p \in Range(y_dfs[s].index) :
        \A c \in PercentageCategories :
            AverageOf(p, s, c.att) > 0 =>
               /\ Breakdown(p, s)[c.at] =
                     RatioPoints(p, s, c,
                         IF AverageOf(p, s, c.pct) * 100 > c.base * Scale
                         THEN c.over ELSE c.under)
               /\ 100 * AverageOf(p, s, c.made) < c.base * AverageOf(p, s, c.att)
                     => Breakdown(p, s)[c.at] < 0

C15_Witness ==
    /\ players_state = "done"
    /\ \E s \in DOMAIN y_dfs : \A c \in PercentageCategories :
          \E p, q \in Range(y_dfs[s].index) :
             /\ AverageOf(p, s, c.att) > 0
             /\ AverageOf(q, s, c.att) > 0
             /\ Breakdown(p, s)[c.at] < 0
             /\ Breakdown(q, s)[c.at] > 0

\* the season-table percentage of every team whose summed attempts are 0 is 0
ZeroAttemptsSeason ==
    season_table.df =>
        \A p \in 1..Len(season_table.index) :
            LET att == SeasonCounter(separate_fraction(nFGMA)[2], season_table.index[p])
                shown == season_table.cols[nFGP][p]
            IN att = 0 => ~shown.nan /\ shown.d > 0 /\ shown.n = 0

\* the FG% and FT% contributions of every player without attempts are 0
ZeroAttemptsPoints ==
    \A s \in DOMAIN y_dfs : \A p \in Range(y_dfs[s].index) :
        \A c \in PercentageCategories :
            AverageOf(p, s, c.att) = 0 => Breakdown(p, s)[c.at] = 0

\* C16: a ratio whose denominator is zero yields 0, never an error or NaN: the
\* season-table percentage of a team whose summed attempts are 0 and the FG%
\* and FT% contributions of a player with zero attempts.
C16_ZeroDenominator == ZeroAttemptsSeason /\ ZeroAttemptsPoints

\* the averages table of a season has, for every player of the season file, the
\* listed statistics divided by the games played and every other position as
\* extracted; without games played every position is as extracted
AveragedOnce(files, tables, stats) ==
    \A s \in DOMAIN tables : \A p \in Range(files[s].keys) :
        LET raw == files[s].rows[p]
            avg == [c \in DOMAIN raw |-> tables[s].cols[c][PosOf(tables[s].index, p)]]
        IN IF raw[6] > 0
           THEN /\ \A c \in Range(stats) : avg[c] * raw[6] = raw[c] * Scale
                /\ \A c \in DOMAIN raw \ Range(stats) : avg[c] = raw[c]
           ELSE avg = raw

\* C17: for a player with games played > 0 every statistic of
\* stats_to_take_average is the raw value divided by the games played, once;
\* every other position, the games played at position 6 among them, is the raw
\* value, in X_dfs as well; with 0 games played all positions are the raw ones.
C17_AverageStats ==
    /\ AveragedOnce(players_files, avg_dfs, stats_to_take_average)
    /\ AveragedOnce(advanced_files, avg_dfs_advanced, stats_to_take_average_advanced)
    /\ \A s \in DOMAIN X_dfs : \A p \in Range(players_files[s].keys) :
          FeatureOf(p, s, 6) = players_files[s].rows[p][6]

C17_Witness ==
    /\ players_state = "done"
    /\ \E s \in DOMAIN avg_dfs : \E p, q \in Range(players_files[s].keys) :
          /\ players_files[s].rows[p][6] > Scale
          /\ FeatureOf(p, s, 6) = players_files[s].rows[p][6]
          /\ AverageOf(p, s, 18) > 0
          /\ AverageOf(p, s, 18) < players_files[s].rows[p][18]
          /\ AverageOf(p, s, 11) = players_files[s].rows[p][11]
          /\ players_files[s].rows[q][6] = 0
    /\ \E s \in DOMAIN avg_dfs_advanced : \E p \in Range(advanced_files[s].keys) :
          LET raw == advanced_files[s].rows[p][34]
              avg == avg_dfs_advanced[s].cols[34][PosOf(avg_dfs_advanced[s].index, p)]
          IN avg > 0 /\ avg < raw

\* the places in stats_list of the inverse categories
InverseStats == {k \in 1..Len(stats_list) : stats_list[k][2] = "inverse"}

\* the number extracted for stat k of the team and week of row r
RawValue(r, k) ==
    DigitsToNat(raw_data[final_data.cols[nWeek][r]][final_data.cols[nTeam_id][r]].stats[k])

\* 1, 0 or -1 as row r wins, ties or loses scoring category c against row q,
\* where the lower extracted value wins an inverse category and the greater
\* stored value any other
CategoryResult(r, q, c) ==
    LET k == CHOOSE k \in 1..Len(stats_list) : stats_list[k][1] = c
        better == IF k \in InverseStats THEN RawValue(r, k) < RawValue(q, k)
                  ELSE final_data.cols[c][r] > final_data.cols[c][q]
        level == IF k \in InverseStats THEN RawValue(r, k) = RawValue(q, k)
                 ELSE final_data.cols[c][r] = final_data.cols[c][q]
    IN IF better THEN 1 ELSE IF level THEN 0 ELSE 0 - 1

\* the sum of a function over a finite set
RECURSIVE SumOver(_, _)
SumOver(f, S) ==
    IF S = {} THEN 0
    ELSE LET x == CHOOSE x \in S : TRUE IN f[x] + SumOver(f, S \ {x})

RawAdvantage(r, q) == SumOver([c \in ScoringNames |-> CategoryResult(r, q, c)], ScoringNames)

\* C18: an inverse category is stored as the negated extracted value; the team
\* with the strictly lower extracted value gets 1 in the category score and +1
\* in the matchup advantage, and equal extracted values tie (here in half
\* points).
C18_InverseNegated ==
    org_state = "done" =>
        \A r \in 1..Len(final_data.index) :
            /\ \A k \in InverseStats :
                  LET c == stats_list[k][1] IN
                  /\ final_data.cols[c][r] = 0 - RawValue(r, k)
                  /\ score_data.cols[c][r] =
                        2 * Cardinality({q \in Opponents(r) : RawValue(r, k) < RawValue(q, k)})
                        + Cardinality({q \in Opponents(r) : RawValue(r, k) = RawValue(q, k)})
            /\ score_data.cols[nMatchup_Wins][r] =
                  2 * Cardinality({q \in Opponents(r) : RawAdvantage(r, q) > 0})
                  + Cardinality({q \in Opponents(r) : RawAdvantage(r, q) = 0})

C18_Witness ==
    /\ org_state = "done"
    /\ \E r \in 1..Len(final_data.index) : \E k \in InverseStats :
          /\ RawValue(r, k) > 0
          /\ \E q \in Opponents(r) :
                /\ RawValue(r, k) < RawValue(q, k)
                /\ CategoryResult(r, q, nPTS) = 0
                /\ CategoryResult(r, q, nFGP) = 0 - 1
                /\ RawAdvantage(r, q) = 0
                /\ Margin(r, q) = 0
          /\ \E q \in Opponents(r) : RawValue(r, k) = RawValue(q, k)
          /\ score_data.cols[stats_list[k][1]][r] = 3

\* the extracted lines of the scenario: cat1 (PTS, standard) 10 or 8 and cat2
\* (TO, inverse) 5, with the same shooting line
ScenarioLine(cat1) ==
    [stats |-> << <<"2", "/", "2">>, <<"1", ".", "0", "0", "0">>, cat1, <<"5">> >>,
     GP |-> <<"3">>, Win |-> IF cat1 = <<"8">> THEN 0 ELSE 2]

\* one week in which A and C have cat1 = 10 and B has cat1 = 8
ScenarioSeason ==
    << [i \in 1..NumTeams |->
           ScenarioLine(IF TeamNames[i] = "B" THEN <<"8">> ELSE <<"1", "0">>)] >>

\* the row of the organized frames of the team with the given name
RowOf(name) == CHOOSE r \in 1..Len(final_data.index) : final_data.cols[nTeam][r] = name

C20_NotReady ==
    ~file_present =>
        /\ org_state \in {"none", "not_ready"}
        /\ final_data = NoneDF
        /\ score_data = NoneDF
        /\ stats_drop_list = <<>>
        /\ ~saved
        /\ vis_state \in {"none", "invalid"}
        /\ vis_data = NoneDF
        /\ season_table = NoneDF

C20_Witness ==
    /\ ~file_present
    /\ org_state = "not_ready"
    /\ vis_state = "invalid"
    /\ final_data = NoneDF
    /\ ~saved

\* C21: when the file of a season is missing, organize_player_data skips the
\* season and still ends with the average, feature and target tables of every
\* season whose file is there.
C21_SkipMissingSeason ==
    players_state # "none" =>
        /\ players_state = "done"
        /\ \A s \in Seasons :
              players_files[s].present <=>
                 (s \in DOMAIN avg_dfs /\ s \in DOMAIN X_dfs /\ s \in DOMAIN y_dfs)

\* C22: analyse_predictions finishes a ranking table only when the prediction
\* rows and the ranking rows left after the drop agree in number and, row by
\* row, in player; otherwise the mismatch is detected and no row is cut,
\* filled in or relabelled.
C22_MismatchDetected ==
    \A L \in Analysed :
        "Reality" \in DOMAIN predictions[L].cols =>
           /\ Len(ranking[L].index) = Len(training[L].X_test.index)
           /\ ranking[L].index = training[L].X_test.index
           /\ predictions[L].index = training[L].X_test.index

\* the raw records of a season as organize_player_data hands them to
\* create_average_stats
RawRecords(s) == pad_missing(players_files[s], active_players_list, num_stats)

\* C23: create_average_stats leaves the raw records alone: when it has
\* returned, every player's list in raw_dict holds the values it held before.
C23_RawNotMutated ==
    players_state = "done" =>
        \A s \in Seasons :
            raw_dict_after_average(RawRecords(s), stats_to_take_average)
                = RawRecords(s)

\* C24: every estimator is fitted at most once: each run of one of the three
\* generate_analysis methods fits estimators no run has fitted before, also
\* when its caller hands the same list to several runs.
C24_FreshModels ==
    \A i \in DOMAIN fits : Len(fits[i]) <= 1

\* cumulative Matchup_Wins of the team in row p of the season table
TableWins(p) == season_table.cols[nMatchup_Wins][p]

\* C25: the season table lists the teams by falling cumulative Matchup_Wins,
\* and the order of its rows depends on nothing but the teams and their wins:
\* teams with equal wins stand in the order of their names.
C25_SeasonOrder ==
    season_table.df =>
        /\ \A p \in 1..Len(season_table.index) :
              TableWins(p) = SeasonCounter(nMatchup_Wins, season_table.index[p])
        /\ \A p, q \in 1..Len(season_table.index) :
              p < q =>
                 \/ TableWins(p) > TableWins(q)
                 \/ /\ TableWins(p) = TableWins(q)
                    /\ NameRank(season_table.index[p]) < NameRank(season_table.index[q])

\* a table with two teams level on wins behind a third one, from a season whose
\* raw lists name the teams in another order than the table
C25_Witness ==
    /\ season_table.df
    /\ \E p, q \in 1..Len(season_table.index) :
          p < q /\ TableWins(p) = TableWins(q)
    /\ \E p, q \in 1..Len(season_table.index) :
          p < q /\ TableWins(p) > TableWins(q)
    /\ \E p, q \in 1..Len(season_table.index) :
          /\ p < q
          /\ \E r, t \in 1..Len(final_data.index) :
                /\ r > t
                /\ final_data.cols[nWeek][r] = final_data.cols[nWeek][t]
                /\ final_data.cols[nTeam][r] = season_table.index[p]
                /\ final_data.cols[nTeam][t] = season_table.index[q]

FractionStats == {k \in 1..Len(stats_list) : stats_list[k][2] = "fraction"}

\* the raw value of stat k of the i-th team of week w
RawStat(w, i, k) == team_record(raw_data, w, i).stats[k]

\* the row of the organized frames for the i-th team of week w
RowAt(w, i) == (w - 1) * NumTeams + i

\* C26: for every fraction stat of every team and week, the organizer records
\* the two integer counters of the raw value, and 0 and 0 for the empty raw
\* value "-/-"; no raw fraction ends in an error.
C26_FractionCounters ==
    (file_present /\ org_state # "none") =>
        \A w \in 1..Len(raw_data) : \A i \in 1..NumTeams : \A k \in FractionStats :
           LET fc == fraction_counters(RawStat(w, i, k))
               nd == separate_fraction(stats_list[k][1])
           IN /\ fc.ok
              /\ RawStat(w, i, k) = <<"-", "/", "-">> => (fc.num = 0 /\ fc.den = 0)
              /\ org_state = "done" =>
                    /\ final_data.cols[nd[1]][RowAt(w, i)] = fc.num
                    /\ final_data.cols[nd[2]][RowAt(w, i)] = fc.den

\* the frame holds one row per week and team, week after week, each with the
\* team's position in the raw list of its week as Team_id
OneRowPerWeekAndTeam(frame) ==
    /\ Len(frame.index) = Len(raw_data) * NumTeams
    /\ \A w \in 1..Len(raw_data) : \A i \in 1..NumTeams :
          /\ frame.cols[nWeek][RowAt(w, i)] = w
          /\ frame.cols[nTeam][RowAt(w, i)] = team_record(raw_data, w, i).Team
          /\ frame.cols[nTeam_id][RowAt(w, i)] = i

\* C27: after K weeks of n teams are organized, final_data and score_data
\* hold K*n rows each, one per week and team in rising week order, and a
\* row's Team_id is the team's 1-based position in its week's raw list, the
\* same in every week.
C27_RowsAndTeamIds ==
    org_state = "done" =>
        /\ OneRowPerWeekAndTeam(final_data)
        /\ OneRowPerWeekAndTeam(score_data)
        /\ \A r, q \in 1..Len(final_data.index) :
              final_data.cols[nTeam][r] = final_data.cols[nTeam][q]
                 => final_data.cols[nTeam_id][r] = final_data.cols[nTeam_id][q]

C27_Witness ==
    /\ org_state = "done"
    /\ Len(raw_data) = MaxWeeks
    /\ MaxWeeks > 1
    /\ Len(score_data.index) = MaxWeeks * NumTeams

\* C28: once the organizer is built, no operation of a visualizer changes its
\* final_data, its score_data or its stats_drop_list.
C28_OrganizerUntouched ==
    [][org_state = "done" =>
          /\ final_data' = final_data
          /\ score_data' = score_data
          /\ stats_drop_list' = stats_drop_list]_vars

\* C29: the active week of the week visualizer lies within 1..last_week,
\* whatever calls of change_week, generate_all_visualizations and
\* generate_last_week_visualizations came before.
C29_ActiveWeekInRange ==
    (week_state = "valid" /\ last_week >= 1) => week \in 1..last_week

\* the season the stopping-point file holds (0 while the file is not there)
PersistedSeason == IF stopping_file.present THEN stopping_file.season ELSE 0

\* the season a call compares its own with: the persisted one, 2017 without it
StartingPoint ==
    IF stopping_file.present THEN stopping_file.season ELSE starting_point_default

NoDuplicate(ids) == \A i, j \in 1..Len(ids) : ids[i] = ids[j] => i = j

\* C30: in every call of update_player_id_database the persisted season does
\* not fall, rosters are queried only by an object whose season is greater
\* than the persisted one, a call for a season no greater than one a call has
\* completed for sends no query and leaves the id list as it is, and the id
\* list holds no id twice.
C30_IdDatabase ==
    [][/\ PersistedSeason' >= PersistedSeason
       /\ ex_queries' > 0 => ex_season' > StartingPoint
       /\ completed_season >= ex_season' =>
             /\ ex_queries' = 0
             /\ ex_state' = "done"
             /\ ids_file' = ids_file
             /\ ex_relevant_players_ids' = ids_file.ids
       /\ NoDuplicate(ids_file'.ids)
       /\ NoDuplicate(ex_relevant_players_ids')]_vars

\* a completed call for a season before the persisted one, which another
\* call wrote after listing several players over more than one scan
C30_Witness ==
    /\ ex_state = "done"
    /\ stopping_file.present
    /\ ex_season < stopping_file.season
    /\ completed_season = stopping_file.season
    /\ ex_queries = 0
    /\ Len(ids_file.ids) = NumPlayers
    /\ ex_relevant_players_ids = ids_file.ids
    /\ \E k \in 1..Len(teams_file.info) : teams_file.info[k][1] = stopping_file.season
    /\ Len(teams_file.info) < Len(ids_file.ids)

====
